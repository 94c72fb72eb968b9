--------------------------- MODULE MCPanelsProofs ---------------------------
(***************************************************************************)
(* Proofs about the surfaces that open over the desktop, as MCPanels runs  *)
(* them: the bar and the dock, the settings panel, the logout ring and the *)
(* list of the launcher, for every set of panels, monitors, texts, buttons *)
(* and results and every number of inputs; and the overview with its       *)
(* captures, the copy of Hyprland it is drawn from and the scripts it      *)
(* sends, for every number of monitors, workspaces and windows.  Each has  *)
(* an inductive invariant of its own; the composition keeps them all.      *)
(***************************************************************************)
EXTENDS MCPanels, Integers, FiniteSetTheorems, SequenceTheorems, WellFoundedInduction, TLAPS

-----------------------------------------------------------------------------
(* The overlay panel, for any set of outputs and whether or not EGL may    *)
(* fail.  PanelInv is what every painting operator establishes, whatever it *)
(* was called for; the lemmas say so once and the steps of the proof cite   *)
(* them.  What ties the panel to the rest of the state, in Inductive, is    *)
(* that a panel with an EGL surface is on the output it is bound to and     *)
(* that a waiting retarget owns a panel without one.                        *)
(* A panel a painting operator may be called on: fades only run open, the
   keyboard follows, and the clock is in order. *)
Paintable(p) ==
    /\ p \in Panel
    /\ ClockOK(p.clock)
    /\ p.egl
    /\ p.fade # "none" => p.open
    /\ p.keyboard = p.open

Driven(p) ==
    /\ p.clock.callback # "armed"
    /\ p.fade # "none" => /\ p.open
                          /\ p.clock.callback = "committed"
                          /\ p.clock.redraw

PanelInv(p) ==
    /\ p \in Panel
    /\ ClockOK(p.clock)
    /\ ~p.egl => p.clock = IdleClock
    /\ Driven(p)
    /\ p.keyboard = p.open
    /\ p.open => p.egl

(* What painting leaves alone *)
SamePlace(p, q) ==
    /\ q.surface = p.surface
    /\ q.shown = p.shown
    /\ q.configured = p.configured
    /\ q.egl = p.egl

Inductive ==
    /\ present \subseteq Outputs
    /\ bound \in Outputs \cup {NoOutput}
    /\ wait \in Wait \cup {NoWait}
    /\ PanelInv(panel)
    /\ panel.egl => panel.surface = bound /\ panel.surface # NoOutput
    /\ wait # NoWait => ~panel.egl
    /\ wait # NoWait => panel.surface \in {wait.target, NoOutput}
    /\ panel.shown \/ panel.configured => panel.surface # NoOutput

-----------------------------------------------------------------------------
(* A tick leaves a paintable panel paintable and in its place, and does not
   touch the clock. *)
LEMMA TickedHolds ==
    ASSUME NEW p, Paintable(p), NEW q \in Ticked(p)
    PROVE  Paintable(q) /\ SamePlace(p, q) /\ q.clock = p.clock
<1>1. CASE q = p
  BY <1>1 DEF SamePlace
<1>2. CASE p.fade # "none" /\ q = [p EXCEPT !.fade = "none",
                                           !.open = p.fade = "in",
                                           !.keyboard = p.fade = "in"]
  <2>1. p \in Panel
    BY DEF Paintable
  <2>2. q \in Panel
    BY <1>2, <2>1 DEF Panel
  <2>3. /\ q.fade = "none"
        /\ q.open = (p.fade = "in")
        /\ q.keyboard = (p.fade = "in")
        /\ q.clock = p.clock
        /\ SamePlace(p, q)
    BY <1>2, <2>1 DEF Panel, SamePlace
  <2> QED
    BY <2>2, <2>3 DEF Paintable, SamePlace
<1> QED
  BY <1>1, <1>2 DEF Ticked

(* A paint behind an armed callback commits it, and asks for the next frame
   if a fade is still running. *)
LEMMA PaintedHolds ==
    ASSUME NEW p, Paintable(p), p.clock.callback = "armed",
           NEW q \in Painted(p)
    PROVE  PanelInv(q) /\ SamePlace(p, q)
<1>1. PICK r \in Ticked(p) :
         q = [r EXCEPT !.stale = FALSE,
                       !.clock = IF r.fade # "none" /\ r.open
                                 THEN Deferred(Committed(@)) ELSE Committed(@)]
  BY DEF Painted
<1>2. Paintable(r) /\ SamePlace(p, r) /\ r.clock = p.clock
  BY TickedHolds
<1>3. r \in Panel /\ r.clock \in Clock /\ ClockOK(r.clock)
  BY <1>2 DEF Paintable, Panel
<1> DEFINE c == Committed(r.clock)
           d == Deferred(c)
<1>4. /\ c \in Clock /\ c.callback = "committed"
      /\ c.redraw = r.clock.redraw /\ c.mapped
  BY <1>2, <1>3 DEF Committed, Clock, Callbacks, ClockOK
<1>5. /\ d \in Clock /\ d.callback = "committed" /\ d.redraw /\ d.mapped
  BY <1>4 DEF Deferred, Clock, Callbacks
<1>6. /\ q \in Panel
      /\ q.clock = IF r.fade # "none" /\ r.open THEN d ELSE c
      /\ q.fade = r.fade /\ q.open = r.open /\ q.keyboard = r.keyboard
      /\ SamePlace(r, q)
  <2> HIDE DEF c, d
  <2>1. q = [r EXCEPT !.stale = FALSE,
                      !.clock = IF r.fade # "none" /\ r.open THEN d ELSE c]
    BY <1>1, <1>3 DEF c, d, Panel
  <2> QED
    BY <2>1, <1>3, <1>4, <1>5 DEF Panel, SamePlace
<1>7. ClockOK(q.clock) /\ Driven(q)
  BY <1>2, <1>4, <1>5, <1>6 DEF ClockOK, Driven, Paintable
<1> QED
  BY <1>2, <1>6, <1>7 DEF PanelInv, SamePlace, Paintable

(* A request on a panel in order, whether it is remembered, scheduled or
   painted at once. *)
LEMMA RequestedHolds ==
    ASSUME NEW p, Paintable(p), p.clock.callback # "armed",
           NEW q \in Requested(p)
    PROVE  PanelInv(q) /\ SamePlace(p, q)
<1>1. p \in Panel /\ p.clock \in Clock /\ ClockOK(p.clock)
  BY DEF Paintable, Panel
<1>2. ASSUME NEW c \in Clock, q = [p EXCEPT !.clock = c], ClockOK(c),
             c.callback = "committed", c.redraw
      PROVE  PanelInv(q) /\ SamePlace(p, q)
  <2>1. /\ q \in Panel /\ q.clock = c /\ q.fade = p.fade
        /\ q.open = p.open /\ q.keyboard = p.keyboard /\ SamePlace(p, q)
    BY <1>1, <1>2 DEF Panel, SamePlace
  <2> QED
    BY <2>1, <1>2 DEF PanelInv, Driven, Paintable, SamePlace
<1>3. CASE p.clock.callback # "none"
  <2>1. q = [p EXCEPT !.clock = Deferred(p.clock)]
    BY <1>3, <1>1 DEF Requested, Panel
  <2>2. /\ Deferred(p.clock) \in Clock /\ ClockOK(Deferred(p.clock))
        /\ Deferred(p.clock).callback = "committed"
        /\ Deferred(p.clock).redraw
    BY <1>1, <1>3 DEF Deferred, Clock, Callbacks, ClockOK
  <2> QED
    BY <2>1, <2>2, <1>2
<1>4. CASE p.clock.callback = "none" /\ p.clock.mapped
  <2>1. q = [p EXCEPT !.clock = Scheduled(p.clock)]
    BY <1>4, <1>1 DEF Requested, Panel
  <2>2. /\ Scheduled(p.clock) \in Clock /\ ClockOK(Scheduled(p.clock))
        /\ Scheduled(p.clock).callback = "committed"
        /\ Scheduled(p.clock).redraw
    BY <1>1, <1>4 DEF Scheduled, Committed, Armed, Clock, Callbacks, ClockOK
  <2> QED
    BY <2>1, <2>2, <1>2
<1>5. CASE p.clock.callback = "none" /\ ~p.clock.mapped
  <2> DEFINE r == [p EXCEPT !.clock = FirstDraw(p.clock)]
  <2>1. /\ FirstDraw(p.clock) \in Clock /\ ClockOK(FirstDraw(p.clock))
        /\ FirstDraw(p.clock).callback = "armed"
    BY <1>1, <1>5 DEF FirstDraw, Armed, Clock, Callbacks, ClockOK
  <2>2. r \in Panel /\ r.clock = FirstDraw(p.clock) /\ SamePlace(p, r)
        /\ r.fade = p.fade /\ r.open = p.open /\ r.keyboard = p.keyboard
    BY <1>1, <2>1 DEF Panel, SamePlace
  <2>3. q \in Painted(r)
    BY <1>5, <1>1 DEF Requested, Panel
  <2>4. Paintable(r) /\ r.clock.callback = "armed"
    BY <2>1, <2>2 DEF Paintable, SamePlace
  <2>5. PanelInv(q) /\ SamePlace(r, q)
    <3> HIDE DEF r
    <3> QED BY <2>3, <2>4, PaintedHolds
  <2> QED
    BY <2>2, <2>5 DEF SamePlace
<1> QED
  BY <1>1, <1>3, <1>4, <1>5

(* Opening, closing, or doing nothing for want of a surface *)
LEMMA ToggledHolds ==
    ASSUME NEW p, PanelInv(p), NEW q \in Toggled(p)
    PROVE  PanelInv(q) /\ SamePlace(p, q)
<1>1. CASE p.surface = NoOutput \/ ~p.egl
  BY <1>1 DEF Toggled, SamePlace
<1>2. CASE ~(p.surface = NoOutput \/ ~p.egl)
  <2> DEFINE r == [p EXCEPT !.open = TRUE, !.keyboard = TRUE,
                            !.fade = IF p.open THEN "out" ELSE "in",
                            !.stale = TRUE]
  <2>1. p \in Panel
    BY DEF PanelInv
  <2>2. r \in Panel /\ r.open /\ r.keyboard /\ r.clock = p.clock
        /\ SamePlace(p, r)
    BY <2>1 DEF Panel, SamePlace
  <2>3. Paintable(r) /\ r.clock.callback # "armed"
    BY <1>2, <2>2 DEF Paintable, PanelInv, Driven, SamePlace
  <2>4. q \in Requested(r)
    BY <1>2 DEF Toggled
  <2>5. PanelInv(q) /\ SamePlace(r, q)
    <3> HIDE DEF r
    <3> QED BY <2>3, <2>4, RequestedHolds
  <2> QED
    BY <2>2, <2>5 DEF SamePlace
<1> QED
  BY <1>1, <1>2

(* An answered callback: the pending repaint is made, or the clock rests. *)
LEMMA FrameDoneHolds ==
    ASSUME NEW p, PanelInv(p), p.clock.callback = "committed",
           NEW q \in FrameDone(p)
    PROVE  PanelInv(q) /\ SamePlace(p, q)
<1>1. p \in Panel /\ p.clock \in Clock /\ ClockOK(p.clock) /\ p.egl
  BY DEF PanelInv, Panel, IdleClock
<1>2. CASE p.clock.redraw
  <2> DEFINE r == [p EXCEPT !.clock = DoneForDraw(p.clock)]
  <2>1. /\ DoneForDraw(p.clock) \in Clock /\ ClockOK(DoneForDraw(p.clock))
        /\ DoneForDraw(p.clock).callback = "armed"
    BY <1>1 DEF DoneForDraw, Armed, Clock, Callbacks, ClockOK
  <2>2. r \in Panel /\ r.clock = DoneForDraw(p.clock) /\ SamePlace(p, r)
        /\ r.fade = p.fade /\ r.open = p.open /\ r.keyboard = p.keyboard
    BY <1>1, <2>1 DEF Panel, SamePlace
  <2>3. Paintable(r) /\ r.clock.callback = "armed"
    BY <1>1, <2>1, <2>2 DEF Paintable, PanelInv, Driven, SamePlace
  <2>4. q \in Painted(r)
    BY <1>2, <1>1 DEF FrameDone, Panel
  <2>5. PanelInv(q) /\ SamePlace(r, q)
    <3> HIDE DEF r
    <3> QED BY <2>3, <2>4, PaintedHolds
  <2> QED
    BY <2>2, <2>5 DEF SamePlace
<1>3. CASE ~p.clock.redraw
  <2>1. q = [p EXCEPT !.clock = DoneIdle(p.clock)]
    BY <1>3, <1>1 DEF FrameDone, Panel
  <2>2. /\ DoneIdle(p.clock) \in Clock /\ ClockOK(DoneIdle(p.clock))
        /\ DoneIdle(p.clock).callback = "none"
    BY <1>1, <1>3 DEF DoneIdle, Clock, Callbacks, ClockOK
  <2>3. q \in Panel /\ q.clock = DoneIdle(p.clock) /\ SamePlace(p, q)
        /\ q.fade = p.fade /\ q.open = p.open /\ q.keyboard = p.keyboard
    BY <1>1, <2>1, <2>2 DEF Panel, SamePlace
  <2> QED
    BY <1>1, <1>3, <2>2, <2>3 DEF PanelInv, Driven, SamePlace
<1> QED
  BY <1>2, <1>3

-----------------------------------------------------------------------------
LEMMA InductiveInit == Init => Inductive
<1> SUFFICES ASSUME Init PROVE Inductive
  OBVIOUS
<1>1. PICK o \in Outputs :
        /\ present = {o}
        /\ bound = o
        /\ panel = [surface |-> o, shown |-> TRUE,
                    configured |-> TRUE, egl |-> TRUE,
                    clock |-> IdleClock, open |-> FALSE, fade |-> "none",
                    keyboard |-> FALSE, stale |-> FALSE]
        /\ wait = NoWait
  BY DEF Init
<1>2. IdleClock \in Clock /\ ClockOK(IdleClock)
  BY DEF IdleClock, Clock, Callbacks, ClockOK
<1>3. PanelInv(panel)
  BY <1>1, <1>2 DEF PanelInv, Panel, Driven, IdleClock
<1> QED
  BY <1>1, <1>3, OutputsAssumption DEF Inductive

(* The retarget came back with output b, or none, and a panel p on it. *)
LEMMA ResumeHolds ==
    ASSUME Inductive, NEW b \in Outputs \cup {NoOutput}, NEW p,
           PanelInv(p), p.surface # NoOutput,
           p.egl => b # NoOutput /\ p.surface = b,
           ResumeWith(b, p)
    PROVE  Inductive'
<1>1. PanelInv(panel') /\ SamePlace(p, panel')
  BY ToggledHolds DEF ResumeWith
<1>2. bound' \in Outputs \cup {NoOutput} /\ (p.egl => bound' = b)
  BY DEF ResumeWith, Inductive
<1> QED
  BY <1>1, <1>2 DEF ResumeWith, Inductive, SamePlace, PanelInv

LEMMA InductiveNext == Inductive /\ [Next]_vars => Inductive'
<1> SUFFICES ASSUME Inductive, [Next]_vars PROVE Inductive'
  OBVIOUS
<1> USE DEF Inductive
<1>p. panel \in Panel /\ panel.clock \in Clock
  BY DEF PanelInv, Panel
<1>i. IdleClock \in Clock /\ ClockOK(IdleClock) /\ IdleClock.callback = "none"
  BY DEF IdleClock, Clock, Callbacks, ClockOK
<1>1. ASSUME NEW o \in Outputs, Plug(o) PROVE Inductive'
  BY <1>1 DEF Plug
<1>2. ASSUME NEW o \in Outputs, Unplug(o) PROVE Inductive'
  <2>1. CASE bound = o
    <3>0. panel' = Released(panel)
      BY <1>2, <2>1 DEF Unplug
    <3>1. /\ panel' \in Panel /\ panel'.clock = IdleClock /\ ~panel'.egl
          /\ panel'.open = FALSE /\ panel'.keyboard = FALSE /\ ~panel'.configured
          /\ ~panel'.shown /\ panel'.surface = NoOutput
          /\ panel'.fade = "none"
      BY ONLY <3>0, <1>p, <1>i DEF Released, Destroyed, Panel
    <3>2. PanelInv(panel')
      BY <3>1, <1>i DEF PanelInv, Driven
    <3> QED
      BY <1>2, <2>1, <3>1, <3>2 DEF Unplug
  <2>2. CASE bound # o
    <3>1. /\ panel' \in Panel /\ panel'.surface = panel.surface
          /\ panel'.egl = panel.egl
          /\ panel'.configured = panel.configured
          /\ panel'.shown => panel.shown
          /\ panel'.clock = panel.clock /\ panel'.open = panel.open
          /\ panel'.keyboard = panel.keyboard /\ panel'.fade = panel.fade
      BY <1>2, <2>2, <1>p DEF Unplug, Closed, Panel
    <3>2. PanelInv(panel')
      BY <3>1 DEF PanelInv, Driven, SamePlace
    <3> QED
      BY <1>2, <2>2, <3>1, <3>2 DEF Unplug, SamePlace
  <2> QED
    BY <2>1, <2>2
<1>3. CASE Configure
  <2>1. /\ panel' \in Panel /\ panel'.surface = panel.surface
        /\ panel'.egl = panel.egl
        /\ panel'.clock = panel.clock /\ panel'.open = panel.open
        /\ panel'.keyboard = panel.keyboard /\ panel'.fade = panel.fade
    BY <1>3, <1>p DEF Configure, Panel
  <2>2. PanelInv(panel')
    BY <2>1 DEF PanelInv, Driven
  <2> QED
    BY <1>3, <2>1, <2>2 DEF Configure
<1>4. CASE ScaleChange
  <2>1. PanelInv(panel') /\ SamePlace(panel, panel')
    BY <1>4, RequestedHolds DEF ScaleChange, Paintable, PanelInv, Driven
  <2> QED
    BY <1>4, <2>1 DEF ScaleChange, SamePlace
<1>5. CASE Frame
  <2>1. PanelInv(panel') /\ SamePlace(panel, panel')
    BY <1>5, FrameDoneHolds DEF Frame
  <2> QED
    BY <1>5, <2>1 DEF Frame, SamePlace
<1>6. CASE Change
  <2> DEFINE r == [panel EXCEPT !.stale = TRUE]
  <2>1. r \in Panel /\ r.clock = panel.clock /\ SamePlace(panel, r)
        /\ r.fade = panel.fade /\ r.open = panel.open
        /\ r.keyboard = panel.keyboard
    BY <1>p DEF Panel, SamePlace
  <2>2. Paintable(r) /\ r.clock.callback # "armed"
    BY <1>6, <2>1 DEF Change, Paintable, PanelInv, Driven, SamePlace
  <2>3. PanelInv(panel') /\ SamePlace(r, panel')
    <3>1. panel' \in Requested(r)
      BY <1>6 DEF Change
    <3> HIDE DEF r
    <3> QED BY <3>1, <2>2, RequestedHolds
  <2> QED
    BY <1>6, <2>1, <2>3 DEF Change, SamePlace
<1>7. CASE Toggle
  <2>1. PanelInv(panel') /\ SamePlace(panel, panel')
    BY <1>7, ToggledHolds DEF Toggle
  <2> QED
    BY <1>7, <2>1 DEF Toggle, SamePlace
<1>8. CASE Retarget
  <2>1. PICK t \in ActiveTargets :
          /\ MustRetarget(t)
          /\ panel' = Created([Destroyed(panel) EXCEPT !.open = FALSE], t)
          /\ wait' = [target |-> t, previous |-> bound]
    BY <1>8 DEF Retarget
  <2>2. t \in Outputs /\ panel.open = FALSE /\ panel.fade = "none"
    BY <2>1 DEF ActiveTargets, MustRetarget, PanelInv, Driven
  <2>3. /\ panel' \in Panel /\ panel'.clock = IdleClock /\ ~panel'.egl
        /\ panel'.open = FALSE /\ panel'.keyboard = FALSE /\ panel'.surface = t
        /\ panel'.fade = "none"
    BY <2>1, <2>2, <1>p, <1>i DEF Created, Destroyed, Panel
  <2>4. PanelInv(panel')
    BY <2>3, <1>i DEF PanelInv, Driven
  <2>5. wait' \in Wait
    BY <2>1, <2>2 DEF Wait
  <2> QED
    BY <1>8, <2>1, <2>2, <2>3, <2>4, <2>5, OutputsAssumption DEF Retarget
<1>9. CASE Resume
  <2>1. wait # NoWait /\ panel.configured
    BY <1>9 DEF Resume, ResumeOnTarget, ResumeOnPrevious, ResumeUnbound
  <2>2. /\ wait \in Wait /\ panel.surface = wait.target
        /\ ~panel.egl /\ panel.open = FALSE /\ panel.keyboard = FALSE
        /\ panel.clock = IdleClock /\ panel.fade = "none"
    BY <2>1 DEF PanelInv, Driven
  <2>3. ASSUME NEW o \in Outputs
        PROVE  /\ PanelInv(Created(panel, o))
               /\ Created(panel, o).surface = o
               /\ ~Created(panel, o).egl
               /\ PanelInv(WithEgl(Created(panel, o)))
               /\ WithEgl(Created(panel, o)).surface = o
    <3> DEFINE r == Created(panel, o)
               q == WithEgl(r)
    <3>1. /\ r \in Panel /\ r.clock = IdleClock /\ ~r.egl /\ r.open = FALSE
          /\ r.keyboard = FALSE /\ r.fade = "none" /\ r.surface = o
      BY <1>p, <2>2 DEF Created, Panel
    <3>2. /\ q \in Panel /\ q.clock = IdleClock /\ q.egl /\ q.open = FALSE
          /\ q.keyboard = FALSE /\ q.fade = "none" /\ q.surface = o
      BY <3>1 DEF WithEgl, Panel
    <3> QED
      BY <3>1, <3>2, <1>i DEF PanelInv, Driven
  <2>4. PanelInv(WithEgl(panel)) /\ WithEgl(panel).surface = wait.target
    <3>1. LET q == WithEgl(panel) IN
          /\ q \in Panel /\ q.clock = IdleClock /\ q.egl /\ q.open = FALSE
          /\ q.keyboard = FALSE /\ q.fade = "none" /\ q.surface = wait.target
      BY <1>p, <2>2 DEF WithEgl, Panel
    <3> QED
      BY <3>1, <1>i DEF PanelInv, Driven
  <2>5. CASE ResumeOnTarget
    BY <2>2, <2>4, <2>5, ResumeHolds, OutputsAssumption
       DEF ResumeOnTarget, Wait
  <2>6. CASE ResumeOnPrevious
    <3>1. wait.previous \in Outputs
      BY <2>2, <2>6 DEF ResumeOnPrevious, Wait
    <3> QED
      BY <2>3, <2>6, <3>1, ResumeHolds, OutputsAssumption
         DEF ResumeOnPrevious
  <2>7. CASE ResumeUnbound
    <3>1. CASE wait.previous = NoOutput
      BY <2>2, <2>7, <3>1, ResumeHolds DEF ResumeUnbound
    <3>2. CASE wait.previous # NoOutput
      <4>1. wait.previous \in Outputs
        BY <2>2, <3>2 DEF Wait
      <4> QED
        BY <2>3, <2>7, <3>2, <4>1, ResumeHolds DEF ResumeUnbound
    <3> QED
      BY <3>1, <3>2
  <2> QED
    BY <1>9, <2>5, <2>6, <2>7 DEF Resume
<1>10. CASE UNCHANGED vars
  BY <1>10 DEF vars
<1> QED
  BY <1>1, <1>2, <1>3, <1>4, <1>5, <1>6, <1>7, <1>8, <1>9, <1>10 DEF Next

-----------------------------------------------------------------------------
LEMMA InductiveHolds == Spec => []Inductive
<1> QED
  BY InductiveInit, InductiveNext, PTL DEF Spec

(* Type correctness: a frame clock is never left pending without a callback,
   and a surface that is gone leaves nothing in it. *)
THEOREM TypeCorrect == Spec => []TypeOK
<1>1. Inductive => TypeOK
  BY DEF Inductive, PanelInv, TypeOK
<1> QED
  BY <1>1, InductiveHolds, PTL

(* A running fade always has its next frame coming, however toggles, changes,
   scale changes, moves and unplugs are interleaved (overlay_panel_toggle,
   dashboard_paint, request_frame, frame_done). *)
THEOREM FadeNeverStalls == Spec => []FadeIsDriven
<1>1. Inductive => FadeIsDriven
  BY DEF Inductive, PanelInv, Driven, FadeIsDriven
<1> QED
  BY <1>1, InductiveHolds, PTL

(* The exclusive keyboard grab and `open' never come apart. *)
THEOREM KeyboardAlwaysFollowsOpen == Spec => []KeyboardFollowsOpen
<1>1. Inductive => KeyboardFollowsOpen
  BY DEF Inductive, PanelInv, KeyboardFollowsOpen
<1> QED
  BY <1>1, InductiveHolds, PTL

(* An open panel's surface is on the output it is bound to, also after a
   retarget that fell back or failed (overlay_panel_retarget). *)
THEOREM OpenAlwaysOnBound == Spec => []OpenOnBound
<1>1. Inductive => OpenOnBound
  BY DEF Inductive, PanelInv, OpenOnBound
<1> QED
  BY <1>1, InductiveHolds, PTL

-----------------------------------------------------------------------------
(* The bar and the dock.                                                   *)

\* An edge surface is where its wish and its animation have brought it.
Carried(e) ==
    /\ ~e.enabled => ~e.hidden /\ ~e.collapsed
    /\ e.enabled /\ e.anim = "none" => /\ e.collapsed <=> e.hidden
                                       /\ e.opacity = IF e.hidden \/ e.cut THEN 0 ELSE 2
    /\ e.enabled /\ e.anim = "hide" => (e.hidden <=> ~e.cut) /\ ~e.collapsed
    /\ e.enabled /\ e.anim = "show" => ~e.hidden /\ ~e.collapsed /\ ~e.cut
    /\ e.unsized => e.enabled /\ e.collapsed /\ e.anim = "none"

\* The geometry a surface of that state was told.
Sized(e) == IF e.unsized THEN "full" ELSE Edges!Shape(e)

\* Without a frame to come nothing moves and nothing wanted is hidden.
AtRest(s) ==
    s \notin drawDue =>
        /\ edge[s].anim = "none"
        /\ edge[s].enabled /\ Edges!Wanted(s, panels) => ~edge[s].hidden

\* The reserved zone is what the dock's setting and the windows call for.
ZoneFollows ==
    /\ zone.asked <=> zone.last
    /\ zone.last <=> ~edge["dock"].enabled /\ windows
    /\ "dock" \notin drawDue => (zone.told <=> zone.asked)

EdgesInv ==
    /\ Edges!TypeOK /\ windows \in BOOLEAN /\ Edges!OnePanel /\ ZoneFollows
    /\ \A s \in Edges!Edges :
          Carried(edge[s]) /\ shape[s] = Sized(edge[s]) /\ AtRest(s)

-----------------------------------------------------------------------------
(* The logout ring: s is its state, as Here has it.                        *)
\* One link of the chain at most, none on a closed ring, input when it is over.
OneLink(s) ==
    /\ s.r.keyboard <=> s.r.open
    /\ ~s.r.open => s.t = Ring!Cancelled
    /\ s.r.open => /\ s.r.surface
                   /\ \A o, p \in Ring!Owners : s.t[o] # "none" /\ s.t[p] # "none" => o = p
                   /\ s.r.ready <=> s.t = Ring!Cancelled

\* Until it takes input a ring is dark; the selected and the hovered button
\* are lit then.
Lit(s) ==
    /\ s.r.ready => s.r.open
    /\ ~s.r.ready => s.r.hovered = Ring!NoButton
    /\ \A i \in Ring!Buttons :
          s.g[i].lit <=> s.r.ready /\ (i = s.r.selected \/ i = s.r.hovered)

\* The clock between handlers: nothing armed is left uncommitted.
Quiet(c) == ClockOK(c) /\ c.callback # "armed"

\* A ring in motion is behind a frame it has asked for.
Paced(s) ==
    s.r.open /\ Ring!Active(s) => s.r.clock.callback = "committed" /\ s.r.clock.redraw

RingInv ==
    /\ Ring!TypeOK
    /\ OneLink(Ring!Here) /\ Quiet(ring.clock) /\ Paced(Ring!Here)
    /\ ~torn => Lit(Ring!Here)
    /\ ran < 2 /\ (ring.open \/ ring.ready => ran = 0)

-----------------------------------------------------------------------------
(* The settings panel.                                                     *)
TabsInv ==
    /\ Tabs!TypeOK /\ Quiet(st.clock)
    /\ ~moved => cf = asked
    /\ ~moved /\ edit.field = "timeout" => edit.scope = st.selected
    /\ edit.field # "none" => st.ime # "off" /\ (st.enabled => st.clock.mapped)
    /\ ~st.enabled => ~st.open
    /\ st.open => st.clock.mapped
    /\ ~st.open => st.fade = "none"
    /\ st.open /\ (st.fade # "none" \/ st.tabFade # "none") => st.clock.redraw
    /\ st.open /\ st.tabFade # "out" => st.tab = st.pending
    /\ st.open /\ ~st.clock.redraw => st.painted = st.tab

-----------------------------------------------------------------------------
(* The list of the launcher.                                               *)
RowsInv ==
    /\ Rows!TypeOK /\ Quiet(list.clock) /\ painted \in Seq(Rows!Kinds) \X Nat
    /\ list.open => list.surface
    /\ ~list.open => list.fade = "none"
    /\ ~stray /\ (~list.open \/ list.fade = "closing") => ~list.dirty /\ ~list.searching
    /\ ~stray /\ ~list.open => list.results = <<>> /\ list.sel = 0
    /\ Rows!RowsAreLive
    /\ list.open =>
          /\ list.clock.redraw \/ painted = Rows!View(list)
          /\ \/ list.dirty \/ list.searching \/ list.fade = "closing" \/ misclick \/ stray
             \/ list.sel <= Len(Rows!Rows(list))

-----------------------------------------------------------------------------
(* The captures of the overview: one in flight is kept and owed an answer, *)
(* and so is one that a late answer struck.                                *)
CapturesInv ==
    /\ capture \in [Windows -> [kept : BOOLEAN, inFlight : BOOLEAN]]
    /\ frames \in [Windows -> {"none", "asked", "copying"}]
    /\ late \in [Windows -> Nat] /\ struck \subseteq Windows
    /\ \A x \in Windows : /\ capture[x].inFlight <=> frames[x] # "none" /\ x \notin struck
                          /\ x \in struck => frames[x] # "none"
                          /\ frames[x] # "none" => capture[x].kept

-----------------------------------------------------------------------------
(* The bar and the dock: the proof.                                        *)
EdgeState == [enabled : BOOLEAN, hidden : BOOLEAN, collapsed : BOOLEAN,
              opacity : {0, 1, 2}, anim : {"none", "show", "hide"},
              unsized : BOOLEAN, cut : BOOLEAN]

(* A paint keeps the bar or the dock where its animation brings it, and    *)
(* leaves nothing wanted hidden without an animation (bar_paint).          *)
LEMMA PaintCarries ==
    ASSUME NEW e \in EdgeState, Carried(e), NEW wanted \in BOOLEAN,
           NEW x \in Edges!Ticked(e)
    PROVE  LET y == Edges!Autohide(x, wanted)
           IN  /\ y \in EdgeState /\ Carried(y) /\ y.enabled = e.enabled
               /\ y.anim = "none" /\ y.enabled /\ wanted => ~y.hidden
               /\ Sized(y) = IF y.collapsed # e.collapsed THEN Edges!Shape(y) ELSE Sized(e)
<1>1. /\ x \in EdgeState /\ Carried(x) /\ x.enabled = e.enabled
      /\ x.unsized = e.unsized /\ (x.collapsed # e.collapsed => x.collapsed /\ ~x.unsized)
      /\ x.collapsed # e.collapsed => x.enabled /\ x.hidden
    <2>1. CASE e.anim = "none"
        BY <2>1 DEF Edges!Ticked
    <2>2. CASE e.anim # "none" /\ x = [e EXCEPT !.opacity = 1]
        BY <2>2 DEF EdgeState, Carried
    <2>3. CASE /\ e.anim # "none"
               /\ x = Edges!Collapse([e EXCEPT !.opacity = IF e.anim = "hide" THEN 0 ELSE 2,
                                               !.anim = "none"])
        <3> DEFINE z == [e EXCEPT !.opacity = IF e.anim = "hide" THEN 0 ELSE 2, !.anim = "none"]
        <3>1. /\ z \in EdgeState /\ z.enabled = e.enabled /\ z.hidden = e.hidden
              /\ z.collapsed = e.collapsed /\ z.anim = "none"
              /\ z.unsized = e.unsized /\ z.cut = e.cut
              /\ z.opacity = IF e.anim = "hide" THEN 0 ELSE 2
            <4>1. CASE e.anim = "hide"
                <5>1. z = [e EXCEPT !.opacity = 0, !.anim = "none"]
                    BY <4>1
                <5> QED BY <4>1, <5>1 DEF EdgeState
            <4>2. CASE e.anim # "hide"
                <5>1. z = [e EXCEPT !.opacity = 2, !.anim = "none"]
                    BY <4>2
                <5> QED BY <4>2, <5>1 DEF EdgeState
            <4> QED BY <4>1, <4>2
        <3>2. x = Edges!Collapse(z)
            BY <2>3
        <3> HIDE DEF z
        <3>3. CASE z.hidden \/ z.collapsed
            <4>1. x = [z EXCEPT !.collapsed = TRUE]
                BY <3>1, <3>2, <3>3 DEF Edges!Collapse, EdgeState
            <4> QED BY <2>3, <3>1, <3>3, <4>1 DEF EdgeState, Carried
        <3>4. CASE ~z.hidden /\ ~z.collapsed
            <4>1. x = z
                BY <3>1, <3>2, <3>4 DEF Edges!Collapse, EdgeState
            <4> QED BY <2>3, <3>1, <3>4, <4>1 DEF EdgeState, Carried
        <3> QED BY <3>3, <3>4
    <2> QED BY <2>1, <2>2, <2>3 DEF Edges!Ticked
<1> DEFINE y == Edges!Autohide(x, wanted)
<1>2. CASE ~x.enabled \/ wanted # x.hidden
    <2>1. y = x
        BY <1>2 DEF Edges!Autohide
    <2> HIDE DEF y
    <2>2. y.anim = "none" /\ y.enabled /\ wanted => ~y.hidden
        BY <1>1, <1>2, <2>1 DEF EdgeState
    <2>3. Sized(y) = IF y.collapsed # e.collapsed THEN Edges!Shape(y) ELSE Sized(e)
        BY <1>1, <2>1 DEF EdgeState, Carried, Sized, Edges!Shape
    <2> QED BY <1>1, <2>1, <2>2, <2>3 DEF y
<1>3. CASE x.enabled /\ wanted = x.hidden /\ wanted
    <2>1. y = [x EXCEPT !.hidden = FALSE, !.collapsed = FALSE, !.unsized = FALSE,
                        !.cut = FALSE, !.anim = "show"]
        BY <1>1, <1>3 DEF Edges!Autohide, EdgeState
    <2> HIDE DEF y
    <2>2. /\ y \in EdgeState /\ y.enabled /\ ~y.hidden /\ ~y.collapsed /\ ~y.unsized
          /\ ~y.cut /\ y.anim = "show"
        BY <1>1, <1>3, <2>1 DEF EdgeState
    <2>3. Carried(y)
        BY <2>2 DEF Carried
    <2>4. Sized(y) = IF y.collapsed # e.collapsed THEN Edges!Shape(y) ELSE Sized(e)
        BY <1>1, <1>3, <2>2 DEF EdgeState, Carried, Sized, Edges!Shape
    <2> QED BY <1>1, <1>3, <2>2, <2>3, <2>4 DEF y, EdgeState
<1>4. CASE x.enabled /\ wanted = x.hidden /\ ~wanted
    <2>1. y = [x EXCEPT !.hidden = TRUE, !.collapsed = x.collapsed, !.unsized = x.unsized,
                        !.cut = FALSE, !.anim = "hide"]
        BY <1>1, <1>4 DEF Edges!Autohide, EdgeState
    <2> HIDE DEF y
    <2>2. ~x.collapsed /\ ~x.unsized
        BY <1>1, <1>4 DEF EdgeState, Carried
    <2>3. /\ y \in EdgeState /\ y.enabled /\ y.hidden /\ ~y.collapsed /\ ~y.unsized
          /\ ~y.cut /\ y.anim = "hide"
        BY <1>1, <1>4, <2>1, <2>2 DEF EdgeState
    <2>4. Carried(y)
        BY <2>3 DEF Carried
    <2>5. Sized(y) = IF y.collapsed # e.collapsed THEN Edges!Shape(y) ELSE Sized(e)
        BY <1>1, <1>4, <2>2, <2>3 DEF EdgeState, Carried, Sized, Edges!Shape
    <2> QED BY <1>1, <1>4, <2>3, <2>4, <2>5 DEF y, EdgeState
<1> QED BY <1>1, <1>2, <1>3, <1>4 DEF EdgeState

(* Turning the hiding on or off leaves the surface at its place            *)
(* (monitor_autohide_apply).                                               *)
LEMMA ApplyCarries ==
    ASSUME NEW e \in EdgeState, Carried(e)
    PROVE  LET y == Edges!MonitorAutohideApply(e, ~e.enabled)
           IN  y \in EdgeState /\ Carried(y) /\ (y.enabled <=> ~e.enabled) /\ ~y.unsized
<1> DEFINE y == Edges!MonitorAutohideApply(e, ~e.enabled)
<1>1. PICK c \in BOOLEAN : c <=> e.anim = "hide"
    OBVIOUS
<1>2. PICK b \in BOOLEAN : b <=> ~e.enabled
    OBVIOUS
<1>3. y = [e EXCEPT !.enabled = b, !.hidden = FALSE, !.collapsed = FALSE, !.opacity = 2,
                    !.unsized = FALSE, !.cut = c]
    BY <1>1, <1>2 DEF EdgeState, Carried, Edges!MonitorAutohideApply
<1> HIDE DEF y
<1>4. /\ y \in EdgeState /\ y.enabled = b /\ ~y.hidden /\ ~y.collapsed /\ y.opacity = 2
      /\ ~y.unsized /\ y.cut = c /\ y.anim = e.anim
    BY <1>3 DEF EdgeState
<1>5. Carried(y)
    BY <1>1, <1>4 DEF Carried, EdgeState
<1> QED BY <1>2, <1>4, <1>5 DEF y


(* What is told to the compositor has a geometry of the three.             *)
LEMMA ShapeTyped ==
    ASSUME NEW e \in EdgeState
    PROVE  Edges!Shape(e) \in {"reserved", "full", "strip"}
BY DEF Edges!Shape

(* Each way to start is at its place (init_egl of the bar, and             *)
(* dock_apply_autohide).                                                   *)
LEMMA StartsCarried ==
    ASSUME NEW e \in {Edges!Tucked, Edges!Fresh(TRUE), Edges!Fresh(FALSE)}
    PROVE  /\ e \in EdgeState /\ Carried(e)
           /\ Sized(e) = IF e.enabled THEN "full" ELSE "reserved"
<1>1. ASSUME NEW on \in BOOLEAN, e = Edges!Fresh(on)
      PROVE  /\ e \in EdgeState /\ e.enabled = on /\ ~e.hidden /\ ~e.collapsed
             /\ e.opacity = 2 /\ e.anim = "none" /\ ~e.unsized /\ ~e.cut
    BY <1>1 DEF Edges!Fresh, EdgeState
<1>2. ASSUME e = Edges!Tucked
      PROVE  /\ e \in EdgeState /\ e.enabled /\ e.hidden /\ e.collapsed
             /\ e.opacity = 0 /\ e.anim = "none" /\ e.unsized
    BY <1>2 DEF Edges!Tucked, Edges!Fresh, EdgeState
<1> QED BY <1>1, <1>2 DEF Carried, Sized, Edges!Shape

LEMMA EdgesInitially == Edges!Init => EdgesInv
<1> SUFFICES ASSUME Edges!Init PROVE EdgesInv
    OBVIOUS
<1> USE DEF Edges!Init
<1>1. PICK b \in {Edges!Tucked, Edges!Fresh(FALSE)}, d \in {Edges!Fresh(TRUE), Edges!Fresh(FALSE)} :
         edge = [s \in Edges!Edges |-> IF s = "bar" THEN b ELSE d]
    OBVIOUS
<1>2. \A s \in Edges!Edges :
         /\ edge[s] \in EdgeState /\ Carried(edge[s])
         /\ Sized(edge[s]) = IF edge[s].enabled THEN "full" ELSE "reserved"
    BY <1>1, StartsCarried
<1>3. EdgeState = [enabled : BOOLEAN, hidden : BOOLEAN, collapsed : BOOLEAN,
                   opacity : 0..2, anim : {"none", "show", "hide"},
                   unsized : BOOLEAN, cut : BOOLEAN]
    BY DEF EdgeState
<1>4. edge \in [Edges!Edges -> EdgeState]
    BY <1>1, <1>2
<1>5. shape \in [Edges!Edges -> {"reserved", "full", "strip"}]
    OBVIOUS
<1>6. Edges!TypeOK
    BY <1>3, <1>4, <1>5 DEF Edges!TypeOK
<1>7. Edges!OnePanel
    BY DEF Edges!OnePanel
<1>8. ZoneFollows /\ \A s \in Edges!Edges : AtRest(s) /\ shape[s] = Sized(edge[s])
    BY <1>2 DEF ZoneFollows, AtRest
<1> QED BY <1>2, <1>6, <1>7, <1>8 DEF EdgesInv

\* The same invariant with one type for the two surfaces.
EdgesPlain ==
    /\ panels \in [BarPanels \union Overlays -> {"closed", "open", "closing"}]
    /\ byWidget \subseteq Overlays /\ pointer \in {"bar", "dock", "away"}
    /\ edge \in [Edges!Edges -> EdgeState]
    /\ shape \in [Edges!Edges -> {"reserved", "full", "strip"}]
    /\ drawDue \subseteq Edges!Edges
    /\ zone \in [last : BOOLEAN, asked : BOOLEAN, told : BOOLEAN]
    /\ windows \in BOOLEAN /\ Edges!OnePanel /\ ZoneFollows
    /\ \A s \in Edges!Edges :
          Carried(edge[s]) /\ shape[s] = Sized(edge[s]) /\ AtRest(s)

LEMMA EdgesInvPlain == EdgesInv <=> EdgesPlain
<1>1. EdgeState = [enabled : BOOLEAN, hidden : BOOLEAN, collapsed : BOOLEAN,
                   opacity : 0..2, anim : {"none", "show", "hide"},
                   unsized : BOOLEAN, cut : BOOLEAN]
    BY DEF EdgeState
<1> QED BY <1>1 DEF EdgesInv, EdgesPlain, Edges!TypeOK

(* A paint of one surface, and the commit of the zone with the dock's.     *)
LEMMA PaintKeepsEdges ==
    ASSUME EdgesPlain, NEW s \in Edges!Edges, Edges!Paint(s)
    PROVE  EdgesPlain'
<1> USE DEF EdgesPlain
<1>1. PICK e \in Edges!Painted(s, panels) :
         /\ edge' = [edge EXCEPT ![s] = e]
         /\ shape' = IF e.collapsed # edge[s].collapsed
                     THEN [shape EXCEPT ![s] = Edges!Shape(e)] ELSE shape
         /\ drawDue' = IF e.anim = "none" THEN drawDue \ {s} ELSE drawDue
    BY DEF Edges!Paint, Edges!Told
<1>2. /\ zone' = IF s = "dock" THEN [zone EXCEPT !.told = zone.asked] ELSE zone
      /\ UNCHANGED <<panels, byWidget, pointer, windows>>
    BY DEF Edges!Paint
<1>3. Edges!Wanted(s, panels) \in BOOLEAN
    BY DEF Edges!Wanted
<1>4. /\ e \in EdgeState /\ Carried(e) /\ e.enabled = edge[s].enabled
      /\ e.anim = "none" /\ e.enabled /\ Edges!Wanted(s, panels) => ~e.hidden
      /\ Sized(e) = IF e.collapsed # edge[s].collapsed THEN Edges!Shape(e)
                    ELSE Sized(edge[s])
    <2>1. PICK x \in Edges!Ticked(edge[s]) : e = Edges!Autohide(x, Edges!Wanted(s, panels))
        BY DEF Edges!Painted
    <2> QED BY <1>3, <2>1, PaintCarries
<1>5. s \in drawDue
    BY DEF Edges!Paint
<1>6. Sized(e) = IF e.collapsed # edge[s].collapsed THEN Edges!Shape(e) ELSE shape[s]
    BY <1>4
<1>7. /\ edge' \in [Edges!Edges -> EdgeState] /\ edge'[s] = e
      /\ \A t \in Edges!Edges \ {s} : edge'[t] = edge[t]
    BY <1>1, <1>4
<1>8. /\ shape' \in [Edges!Edges -> {"reserved", "full", "strip"}]
      /\ shape'[s] = Sized(e) /\ \A t \in Edges!Edges \ {s} : shape'[t] = shape[t]
    BY <1>1, <1>4, <1>6, ShapeTyped
<1>9. \A t \in Edges!Edges : Carried(edge'[t]) /\ shape'[t] = Sized(edge'[t])
    BY <1>4, <1>7, <1>8
<1>10. \A t \in Edges!Edges : AtRest(t)'
    <2> SUFFICES ASSUME NEW t \in Edges!Edges, t \notin drawDue'
                 PROVE  /\ edge'[t].anim = "none"
                        /\ edge'[t].enabled /\ Edges!Wanted(t, panels)' => ~edge'[t].hidden
        BY DEF AtRest
    <2>1. Edges!Wanted(t, panels)' <=> Edges!Wanted(t, panels)
        BY <1>2 DEF Edges!Wanted
    <2>2. CASE t = s
        BY <1>1, <1>4, <1>5, <1>7, <2>1, <2>2
    <2>3. CASE t # s
        BY <1>1, <1>7, <2>1, <2>3 DEF AtRest
    <2> QED BY <2>2, <2>3
<1>11. ZoneFollows' /\ zone' \in [last : BOOLEAN, asked : BOOLEAN, told : BOOLEAN]
    <2>1. edge'["dock"].enabled = edge["dock"].enabled
        BY <1>4, <1>7 DEF Edges!Edges
    <2>2. CASE s = "dock"
        <3>1. zone' \in [last : BOOLEAN, asked : BOOLEAN, told : BOOLEAN]
            BY <1>2, <2>2
        <3>2. zone'.last = zone.last /\ zone'.asked = zone.asked /\ zone'.told = zone.asked
            BY <1>2, <2>2
        <3> QED BY <1>2, <2>1, <3>1, <3>2 DEF ZoneFollows
    <2>3. CASE s # "dock"
        BY <1>1, <1>2, <2>1, <2>3 DEF ZoneFollows
    <2> QED BY <2>2, <2>3
<1>12. Edges!OnePanel'
    BY <1>2 DEF Edges!OnePanel
<1> QED BY <1>1, <1>2, <1>7, <1>8, <1>9, <1>10, <1>11, <1>12

(* A surface that a change leaves alone or has redrawn stays at rest.      *)
LEMMA RestStays ==
    ASSUME EdgesPlain, NEW s \in Edges!Edges, UNCHANGED edge,
           drawDue \subseteq drawDue',
           s \in drawDue' \/ (Edges!Wanted(s, panels)' => Edges!Wanted(s, panels))
    PROVE  AtRest(s)'
BY DEF EdgesPlain, AtRest

(* A pill opens its panel after it has closed all the others               *)
(* (bar_pointer_button, close_other_overlays).                             *)
LEMMA PillKeepsEdges ==
    ASSUME EdgesPlain, NEW p \in BarPanels \union Overlays, Edges!PillClick(p)
    PROVE  EdgesPlain'
<1> USE DEF EdgesPlain
<1> DEFINE keep == IF p = "clock" THEN "none" ELSE p
           closed == Edges!CloseOtherOverlays(keep)
<1>1. /\ panels' = [closed EXCEPT ![p] = Edges!Toggled(@)]
      /\ byWidget' = IF p \in Overlays /\ panels[p] = "closed"
                     THEN byWidget \union {p} ELSE byWidget
      /\ drawDue' = drawDue \union {"bar"}
      /\ UNCHANGED <<pointer, zone, windows>>
    BY DEF Edges!PillClick
<1>2. /\ closed \in [BarPanels \union Overlays -> {"closed", "open", "closing"}]
      /\ \A q \in BarPanels \union Overlays : q # p => closed[q] # "open"
    BY PanelsAssumption DEF Edges!CloseOtherOverlays
<1>3. \/ UNCHANGED <<edge, shape>>
      \/ \E e \in Edges!Painted("bar", closed) :
            /\ edge' = [edge EXCEPT !["bar"] = e]
            /\ shape' = Edges!Told("bar", e)
    BY DEF Edges!PillClick
<1> HIDE DEF closed
<1>4. /\ panels' \in [BarPanels \union Overlays -> {"closed", "open", "closing"}]
      /\ \A q \in BarPanels \union Overlays : q # p => panels'[q] # "open"
    BY <1>1, <1>2 DEF Edges!Toggled
<1>5. byWidget' \subseteq Overlays
    BY <1>1
<1>6. Edges!OnePanel'
    BY <1>4, <1>5 DEF Edges!OnePanel
<1>7. CASE UNCHANGED <<edge, shape>>
    <2>1. \A s \in Edges!Edges : AtRest(s)'
        BY <1>1, <1>7, RestStays DEF Edges!Edges, Edges!Wanted
    <2>2. ZoneFollows'
        BY <1>1, <1>7 DEF ZoneFollows
    <2> QED BY <1>1, <1>4, <1>5, <1>6, <1>7, <2>1, <2>2 DEF Edges!Edges
<1>8. CASE \E e \in Edges!Painted("bar", closed) :
              /\ edge' = [edge EXCEPT !["bar"] = e]
              /\ shape' = Edges!Told("bar", e)
    <2>1. PICK e \in Edges!Painted("bar", closed) :
              /\ edge' = [edge EXCEPT !["bar"] = e]
              /\ shape' = Edges!Told("bar", e)
        BY <1>8
    <2>2. /\ e \in EdgeState /\ Carried(e)
          /\ Sized(e) = IF e.collapsed # edge["bar"].collapsed THEN Edges!Shape(e)
                        ELSE Sized(edge["bar"])
        <3>1. PICK x \in Edges!Ticked(edge["bar"]) :
                  e = Edges!Autohide(x, Edges!Wanted("bar", closed))
            BY DEF Edges!Painted
        <3>2. Edges!Wanted("bar", closed) \in BOOLEAN
            BY DEF Edges!Wanted
        <3>3. edge["bar"] \in EdgeState /\ Carried(edge["bar"])
            BY DEF Edges!Edges
        <3> QED BY <3>1, <3>2, <3>3, PaintCarries
    <2>3. /\ edge' \in [Edges!Edges -> EdgeState] /\ edge'["bar"] = e
          /\ edge'["dock"] = edge["dock"]
        BY <2>1, <2>2 DEF Edges!Edges
    <2>4. /\ shape' \in [Edges!Edges -> {"reserved", "full", "strip"}]
          /\ shape'["bar"] = Sized(e) /\ shape'["dock"] = shape["dock"]
        BY <2>1, <2>2, ShapeTyped DEF Edges!Edges, Edges!Told
    <2>5. \A s \in Edges!Edges :
              /\ Carried(edge'[s]) /\ shape'[s] = Sized(edge'[s])
              /\ AtRest(s)'
        <3>1. AtRest("dock")'
            BY <1>1, <2>3 DEF AtRest, Edges!Edges, Edges!Wanted
        <3>2. AtRest("bar")'
            BY <1>1 DEF AtRest
        <3> QED BY <2>2, <2>3, <2>4, <3>1, <3>2 DEF Edges!Edges
    <2>6. ZoneFollows'
        BY <1>1, <2>3 DEF ZoneFollows
    <2> QED BY <1>1, <1>4, <1>5, <1>6, <2>3, <2>4, <2>5, <2>6 DEF Edges!Edges
<1> QED BY <1>3, <1>7, <1>8

(* Turning the hiding of one surface on or off (apply_config_update).      *)
LEMMA ApplyKeepsEdges ==
    ASSUME EdgesPlain, NEW s \in Edges!Edges, Edges!ApplyConfigUpdate(s)
    PROVE  EdgesPlain'
<1> USE DEF EdgesPlain
<1> DEFINE on == ~edge[s].enabled
           e == Edges!MonitorAutohideApply(edge[s], on)
<1>1. /\ edge' = [edge EXCEPT ![s] = e]
      /\ shape' = [shape EXCEPT ![s] = Edges!Shape(edge'[s])]
      /\ zone' = IF s = "dock" THEN Edges!ApplyZone(zone, on) ELSE zone
      /\ drawDue' = Edges!Edges
      /\ UNCHANGED <<panels, byWidget, pointer, windows>>
    BY DEF Edges!ApplyConfigUpdate
<1>2. /\ e \in EdgeState /\ Carried(e) /\ (e.enabled <=> ~edge[s].enabled) /\ ~e.unsized
    <2>1. edge[s] \in EdgeState /\ Carried(edge[s])
        OBVIOUS
    <2> QED BY <2>1, ApplyCarries
<1> HIDE DEF e
<1>3. /\ edge' \in [Edges!Edges -> EdgeState] /\ edge'[s] = e
      /\ \A t \in Edges!Edges \ {s} : edge'[t] = edge[t]
    BY <1>1, <1>2
<1>4. /\ shape' \in [Edges!Edges -> {"reserved", "full", "strip"}]
      /\ shape'[s] = Edges!Shape(e) /\ \A t \in Edges!Edges \ {s} : shape'[t] = shape[t]
    BY <1>1, <1>2, <1>3, ShapeTyped
<1>5. \A t \in Edges!Edges :
          Carried(edge'[t]) /\ shape'[t] = Sized(edge'[t]) /\ AtRest(t)'
    BY <1>1, <1>2, <1>3, <1>4 DEF AtRest, Sized
<1>6. zone' \in [last : BOOLEAN, asked : BOOLEAN, told : BOOLEAN] /\ ZoneFollows'
    <2>1. CASE s = "dock"
        <3>1. PICK f \in BOOLEAN : /\ f <=> edge["dock"].enabled /\ windows
                                  /\ zone' = [zone EXCEPT !.last = f, !.asked = f, !.told = f]
            BY <1>1, <2>1 DEF Edges!ApplyZone, EdgeState
        <3>2. /\ zone' \in [last : BOOLEAN, asked : BOOLEAN, told : BOOLEAN]
              /\ zone'.last = f /\ zone'.asked = f /\ zone'.told = f
            BY <3>1
        <3> QED BY <1>1, <1>2, <1>3, <2>1, <3>1, <3>2 DEF ZoneFollows
    <2>2. CASE s # "dock"
        <3>1. zone' = zone /\ edge'["dock"] = edge["dock"]
            BY <1>1, <1>3, <2>2 DEF Edges!Edges
        <3> QED BY <1>1, <3>1 DEF ZoneFollows, Edges!Edges
    <2> QED BY <2>1, <2>2
<1>7. Edges!OnePanel'
    BY <1>1 DEF Edges!OnePanel
<1> QED BY <1>1, <1>3, <1>4, <1>5, <1>6, <1>7

(* Every step of the bar and the dock keeps the invariant.                 *)
LEMMA EdgesStep == EdgesInv /\ Edges!Next => EdgesInv'
<1> SUFFICES ASSUME EdgesPlain, Edges!Next PROVE EdgesPlain'
    BY EdgesInvPlain, PTL
<1> USE DEF EdgesPlain
<1>1. CASE Edges!TimerTick
    <2>1. /\ UNCHANGED <<panels, byWidget, pointer, edge, shape, zone, windows>>
          /\ drawDue' = drawDue \union {"bar"}
        BY <1>1 DEF Edges!TimerTick
    <2>2. \A s \in Edges!Edges : AtRest(s)'
        BY <2>1, RestStays DEF Edges!Wanted
    <2> QED BY <2>1, <2>2 DEF Edges!OnePanel, ZoneFollows, Edges!Edges
<1>2. CASE Edges!WindowsChange
    <2>1. /\ UNCHANGED <<panels, byWidget, pointer, edge, shape>>
          /\ windows' = ~windows /\ drawDue' = Edges!Edges
          /\ zone' = IF edge["dock"].enabled THEN zone ELSE Edges!Refresh(zone, windows')
        BY <1>2 DEF Edges!WindowsChange
    <2>2. \A s \in Edges!Edges : AtRest(s)'
        BY <2>1 DEF AtRest
    <2>3. zone' \in [last : BOOLEAN, asked : BOOLEAN, told : BOOLEAN] /\ ZoneFollows'
        <3>1. CASE edge["dock"].enabled
            BY <2>1, <3>1 DEF ZoneFollows, Edges!Edges
        <3>2. CASE ~edge["dock"].enabled
            <4>1. windows' \in BOOLEAN /\ (windows' <=> ~windows)
                BY <2>1
            <4>2. zone' = IF windows' = zone.last THEN zone
                          ELSE [zone EXCEPT !.last = windows', !.asked = windows']
                BY <2>1, <3>2 DEF Edges!Refresh
            <4>3. /\ zone' \in [last : BOOLEAN, asked : BOOLEAN, told : BOOLEAN]
                  /\ (zone'.last <=> windows') /\ (zone'.asked <=> windows')
                BY <4>1, <4>2 DEF ZoneFollows
            <4> QED BY <2>1, <3>2, <4>3 DEF ZoneFollows, Edges!Edges
        <3> QED BY <3>1, <3>2
    <2> QED BY <2>1, <2>2, <2>3 DEF Edges!OnePanel
<1>3. CASE \E s \in Edges!Edges : Edges!Paint(s)
    BY <1>3, PaintKeepsEdges
<1>4. CASE \E s \in Edges!Edges : Edges!ApplyConfigUpdate(s)
    BY <1>4, ApplyKeepsEdges
<1>5. CASE \E to \in {"bar", "dock", "away"} : Edges!PointerMoves(to)
    <2>1. /\ UNCHANGED <<panels, byWidget, edge, shape, zone, windows>>
          /\ pointer' \in {"bar", "dock", "away"} /\ drawDue' = Edges!Edges
        BY <1>5 DEF Edges!PointerMoves
    <2> QED BY <2>1 DEF AtRest, Edges!OnePanel, ZoneFollows, Edges!Edges
<1>6. CASE \E p \in BarPanels \union Overlays : Edges!PillClick(p)
    BY <1>6, PillKeepsEdges
<1>7. CASE \E p \in BarPanels \union Overlays : Edges!Dismiss(p)
    <2>1. PICK p \in BarPanels \union Overlays : Edges!Dismiss(p)
        BY <1>7
    <2>2. /\ UNCHANGED <<byWidget, pointer, edge, shape, zone, windows>>
          /\ panels[p] # "closed" /\ panels' = [panels EXCEPT ![p] = "closing"]
          /\ drawDue' = drawDue \union {"bar"}
        BY <2>1 DEF Edges!Dismiss
    <2>3. \A s \in Edges!Edges : AtRest(s)'
        BY <2>2, RestStays DEF Edges!Wanted, Edges!Edges
    <2> QED BY <2>2, <2>3 DEF Edges!OnePanel, ZoneFollows, Edges!Edges
<1>8. CASE \E p \in BarPanels \union Overlays : Edges!FadeEnds(p)
    <2>1. PICK p \in BarPanels \union Overlays : Edges!FadeEnds(p)
        BY <1>8
    <2>2. /\ UNCHANGED <<byWidget, pointer, edge, shape, drawDue, zone, windows>>
          /\ panels[p] = "closing" /\ panels' = [panels EXCEPT ![p] = "closed"]
        BY <2>1 DEF Edges!FadeEnds
    <2>3. \A s \in Edges!Edges : AtRest(s)'
        BY <2>2, RestStays DEF Edges!Wanted
    <2> QED BY <2>2, <2>3 DEF Edges!OnePanel, ZoneFollows
<1>9. CASE \E o \in Overlays : Edges!IpcToggle(o)
    <2>1. PICK o \in Overlays : Edges!IpcToggle(o)
        BY <1>9
    <2>2. /\ UNCHANGED <<pointer, edge, shape, zone, windows>>
          /\ panels' = [panels EXCEPT ![o] = Edges!Toggled(@)]
          /\ byWidget' = IF panels[o] = "closed" THEN byWidget \ {o} ELSE byWidget
          /\ drawDue' = Edges!Edges
        BY <2>1 DEF Edges!IpcToggle
    <2>3. panels' \in [BarPanels \union Overlays -> {"closed", "open", "closing"}]
        BY <2>2 DEF Edges!Toggled
    <2>4. Edges!OnePanel'
        <3>1. \A q \in (BarPanels \union byWidget)' : panels'[q] = "open" =>
                  q \in BarPanels \union byWidget /\ panels[q] = "open"
            BY <2>2, PanelsAssumption DEF Edges!Toggled
        <3> QED BY <3>1 DEF Edges!OnePanel
    <2>5. \A s \in Edges!Edges : AtRest(s)' /\ ZoneFollows'
        BY <2>2 DEF AtRest, ZoneFollows, Edges!Edges
    <2> QED BY <2>2, <2>3, <2>4, <2>5 DEF Edges!Edges
<1> QED BY <1>1, <1>2, <1>3, <1>4, <1>5, <1>6, <1>7, <1>8, <1>9 DEF Edges!Next

(* At rest the surfaces are as the settings and the pointer ask.           *)
LEMMA EdgesAreRight == EdgesInv => Edges!EdgesSettle /\ Edges!OnePanel
<1> SUFFICES ASSUME EdgesPlain PROVE Edges!EdgesSettle
    BY EdgesInvPlain DEF EdgesPlain
<1>1. \A s \in Edges!Edges : edge[s].collapsed \in BOOLEAN /\ edge[s].hidden \in BOOLEAN
    BY DEF EdgesPlain, EdgeState
<1>2. zone.told \in BOOLEAN
    BY DEF EdgesPlain
<1> QED BY <1>1, <1>2
        DEF EdgesPlain, AtRest, Carried, Sized, ZoneFollows, Edges!EdgesSettle

-----------------------------------------------------------------------------
(* The frame clock, which the three modules have from FrameClock.          *)
LEMMA ClocksAgree ==
    ASSUME NEW c
    PROVE  /\ Ring!Clock = Clock /\ Tabs!Clock = Clock /\ Rows!Clock = Clock
           /\ Ring!IdleClock = IdleClock /\ Tabs!IdleClock = IdleClock
           /\ Rows!IdleClock = IdleClock
           /\ Ring!ClockOK(c) <=> ClockOK(c)
           /\ Tabs!ClockOK(c) <=> ClockOK(c)
           /\ Rows!ClockOK(c) <=> ClockOK(c)
           /\ Ring!Committed(c) = Committed(c) /\ Tabs!Committed(c) = Committed(c)
           /\ Rows!Committed(c) = Committed(c)
           /\ Ring!Deferred(c) = Deferred(c) /\ Tabs!Deferred(c) = Deferred(c)
           /\ Rows!Deferred(c) = Deferred(c)
           /\ Ring!Scheduled(c) = Scheduled(c) /\ Tabs!Scheduled(c) = Scheduled(c)
           /\ Rows!Scheduled(c) = Scheduled(c)
           /\ Ring!FirstDraw(c) = FirstDraw(c) /\ Tabs!FirstDraw(c) = FirstDraw(c)
           /\ Rows!FirstDraw(c) = FirstDraw(c)
           /\ Ring!DoneForDraw(c) = DoneForDraw(c) /\ Tabs!DoneForDraw(c) = DoneForDraw(c)
           /\ Rows!DoneForDraw(c) = DoneForDraw(c)
           /\ Ring!DoneIdle(c) = DoneIdle(c) /\ Tabs!DoneIdle(c) = DoneIdle(c)
           /\ Rows!DoneIdle(c) = DoneIdle(c)
BY Zenon DEF Clock, Callbacks, IdleClock, ClockOK, Armed, Committed, Deferred, Scheduled,
       FirstDraw, DoneForDraw, DoneIdle,
       Ring!Clock, Ring!Callbacks, Ring!IdleClock, Ring!ClockOK, Ring!Armed, Ring!Committed,
       Ring!Deferred, Ring!Scheduled, Ring!FirstDraw, Ring!DoneForDraw, Ring!DoneIdle,
       Tabs!Clock, Tabs!Callbacks, Tabs!IdleClock, Tabs!ClockOK, Tabs!Armed, Tabs!Committed,
       Tabs!Deferred, Tabs!Scheduled, Tabs!FirstDraw, Tabs!DoneForDraw, Tabs!DoneIdle,
       Rows!Clock, Rows!Callbacks, Rows!IdleClock, Rows!ClockOK, Rows!Armed, Rows!Committed,
       Rows!Deferred, Rows!Scheduled, Rows!FirstDraw, Rows!DoneForDraw, Rows!DoneIdle

(* What a handler does to a clock (service/frame_service.cpp): a commit    *)
(* leaves nothing armed, and what is asked for is committed with it.       *)
LEMMA ClockMoves ==
    ASSUME NEW c \in Clock, ClockOK(c)
    PROVE  /\ Quiet(Committed(c)) /\ Committed(c).redraw = c.redraw
           /\ Committed(c).mapped = c.mapped
           /\ c.callback # "none" => Committed(c).callback = "committed"
           /\ Quiet(c) => Committed(c) = c
           /\ c.callback # "none" =>
                 /\ ClockOK(Deferred(c)) /\ Deferred(c).redraw
                 /\ Deferred(c).callback = c.callback /\ Deferred(c).mapped = c.mapped
                 /\ ClockOK(DoneForDraw(c)) /\ DoneForDraw(c).callback = "armed"
                 /\ ~DoneForDraw(c).redraw /\ DoneForDraw(c).mapped
           /\ c.callback = "none" =>
                 /\ ClockOK(FirstDraw(c)) /\ FirstDraw(c).callback = "armed"
                 /\ ~FirstDraw(c).redraw /\ FirstDraw(c).mapped
                 /\ c.mapped => /\ Quiet(Scheduled(c)) /\ Scheduled(c).redraw
                                /\ Scheduled(c).callback = "committed"
                                /\ Scheduled(c).mapped
           /\ ~c.redraw => Quiet(DoneIdle(c)) /\ ~DoneIdle(c).redraw
                           /\ DoneIdle(c).mapped = c.mapped
           /\ Quiet(IdleClock) /\ ~IdleClock.redraw /\ ~IdleClock.mapped
BY DEF Clock, Callbacks, ClockOK, Quiet, Armed, Committed, Deferred, Scheduled, FirstDraw,
       DoneForDraw, DoneIdle, IdleClock

-----------------------------------------------------------------------------
(* The logout ring: the proof.                                             *)
RingState == [r : Ring!Ring, t : [Ring!Owners -> Ring!Ends],
              g : [Ring!Buttons -> [lit : BOOLEAN, moving : BOOLEAN]]]

\* A state of the ring with its chain in order.
Chained(s) == s \in RingState /\ OneLink(s)

LEMMA ButtonsFacts == 0 \in Ring!Buttons /\ Ring!NoButton \notin Ring!Buttons
<1>1. ButtonCount \in Nat \ {0}
    BY PanelsAssumption
<1> QED BY <1>1 DEF Ring!Buttons, Ring!NoButton

(* A button is lit or put out, the rest of the ring is left alone.         *)
LEMMA HighlightFields ==
    \A s \in RingState, i \in Ring!Buttons \cup {Ring!NoButton}, on \in BOOLEAN :
        LET q == Ring!SetButtonHighlight(s, i, on)
        IN  /\ q \in RingState /\ q.r = s.r /\ q.t = s.t
            /\ \A j \in Ring!Buttons : q.g[j].lit <=> IF j = i THEN on ELSE s.g[j].lit
<1> SUFFICES ASSUME NEW s \in RingState, NEW i \in Ring!Buttons \cup {Ring!NoButton},
                    NEW on \in BOOLEAN
             PROVE  LET q == Ring!SetButtonHighlight(s, i, on)
                    IN  /\ q \in RingState /\ q.r = s.r /\ q.t = s.t
                        /\ \A j \in Ring!Buttons :
                              q.g[j].lit <=> IF j = i THEN on ELSE s.g[j].lit
    OBVIOUS
<1>1. CASE i = Ring!NoButton
    BY <1>1, ButtonsFacts DEF Ring!SetButtonHighlight
<1>2. CASE i # Ring!NoButton
    <2> DEFINE gi == [lit |-> on, moving |-> TRUE]
               g == [s.g EXCEPT ![i] = gi]
               q == Ring!SetButtonHighlight(s, i, on)
    <2>1. gi \in [lit : BOOLEAN, moving : BOOLEAN] /\ gi.lit = on
        OBVIOUS
    <2>2. q = [s EXCEPT !.g = g]
        BY <1>2 DEF Ring!SetButtonHighlight, RingState
    <2> HIDE DEF gi, q
    <2>3. g \in [Ring!Buttons -> [lit : BOOLEAN, moving : BOOLEAN]]
        BY <2>1 DEF RingState
    <2>4. \A j \in Ring!Buttons : g[j].lit <=> IF j = i THEN on ELSE s.g[j].lit
        BY <1>2, <2>1 DEF RingState
    <2> HIDE DEF g
    <2>5. q \in RingState /\ q.r = s.r /\ q.t = s.t /\ q.g = g
        BY <2>2, <2>3 DEF RingState
    <2> QED BY <2>4, <2>5 DEF q
<1> QED BY <1>1, <1>2

(* A tween is started or ended: only the chain changes.                    *)
LEMMA TweenFields ==
    ASSUME NEW s \in RingState, NEW o \in Ring!Owners, NEW e \in Ring!Ends
    PROVE  LET q == [s EXCEPT !.t[o] = e]
           IN  /\ q \in RingState /\ q.r = s.r /\ q.g = s.g
               /\ q.t = [s.t EXCEPT ![o] = e]
BY DEF RingState

LEMMA CancelFields ==
    ASSUME NEW s \in RingState
    PROVE  LET q == Ring!CancelOpenCloseTweens(s)
           IN  q \in RingState /\ q.r = s.r /\ q.g = s.g /\ q.t = Ring!Cancelled
BY DEF RingState, Ring!CancelOpenCloseTweens, Ring!Cancelled, Ring!Ends

\* One tween of an otherwise quiet chain.
OnlyLink(t, o) == t \in [Ring!Owners -> Ring!Ends] /\ t[o] # "none" /\ o \in Ring!Owners
                  /\ \A p \in Ring!Owners : t[p] # "none" => p = o

LEMMA LinkFacts ==
    /\ \A o \in Ring!Owners, e \in Ring!Ends \ {"none"} :
          OnlyLink([Ring!Cancelled EXCEPT ![o] = e], o)
    /\ \A t, o : OnlyLink(t, o) => /\ t # Ring!Cancelled
                                  /\ [t EXCEPT ![o] = "none"] = Ring!Cancelled
BY DEF OnlyLink, Ring!Cancelled, Ring!Ends

(* An open ring with one link is in order as long as it takes no input.    *)
LEMMA LinkedInOrder ==
    ASSUME NEW q \in RingState, NEW o \in Ring!Owners, OnlyLink(q.t, o),
           q.r.open, q.r.keyboard, q.r.surface, ~q.r.ready
    PROVE  OneLink(q)
<1>1. q.t # Ring!Cancelled
    BY LinkFacts
<1>2. \A p1, p2 \in Ring!Owners : q.t[p1] # "none" /\ q.t[p2] # "none" => p1 = p2
    BY DEF OnlyLink
<1> QED BY <1>1, <1>2 DEF OneLink

(* The ring is hidden at once: no tween, no input, no keyboard.            *)
LEMMA FinishFields ==
    ASSUME NEW s \in RingState
    PROVE  LET q == Ring!FinishClose(s)
           IN  /\ q \in RingState /\ q.t = s.t /\ q.g = s.g
               /\ ~q.r.open /\ ~q.r.keyboard /\ q.r.ready = s.r.ready
               /\ q.r.surface = s.r.surface /\ q.r.hovered = s.r.hovered
               /\ q.r.selected = s.r.selected /\ q.r.clock = Committed(s.r.clock)
<1>1. s.r \in Ring!Ring /\ s.r.clock \in Clock
    BY ClocksAgree DEF RingState, Ring!Ring
<1>2. Committed(s.r.clock) \in Clock
    BY <1>1 DEF Clock, Callbacks, Committed
<1> DEFINE r == [s.r EXCEPT !.logo = "hidden", !.open = FALSE, !.keyboard = FALSE,
                            !.clock = Committed(s.r.clock)]
<1>3. Ring!FinishClose(s) = [s EXCEPT !.r = r]
    BY ClocksAgree DEF RingState, Ring!FinishClose
<1>4. r \in Ring!Ring
    BY <1>1, <1>2, ClocksAgree DEF Ring!Ring
<1>5. /\ ~r.open /\ ~r.keyboard /\ r.ready = s.r.ready
      /\ r.surface = s.r.surface /\ r.hovered = s.r.hovered
      /\ r.selected = s.r.selected /\ r.clock = Committed(s.r.clock)
    BY <1>1 DEF Ring!Ring
<1> HIDE DEF r
<1> QED BY <1>3, <1>4, <1>5 DEF RingState

(* The chosen command hides the ring, with nothing lit (logout_execute).   *)
LEMMA ExecuteHides ==
    ASSUME NEW s \in RingState
    PROVE  LET q == Ring!Execute(s)
           IN  /\ Chained(q) /\ Lit(q) /\ ~q.r.open /\ ~q.r.ready
               /\ q.r.clock = Committed(s.r.clock)
<1> DEFINE z == [s EXCEPT !.r.selected = 0]
           dark == [i \in Ring!Buttons |-> Ring!Dark]
           c == Ring!CancelOpenCloseTweens(z)
           d == [c EXCEPT !.g = dark, !.r.hovered = Ring!NoButton,
                          !.r.exiting = FALSE, !.r.ready = FALSE]
           q == Ring!FinishClose(d)
<1>1. z \in RingState /\ z.r.clock = s.r.clock
    BY ButtonsFacts DEF RingState, Ring!Ring
<1> HIDE DEF z
<1>2. c \in RingState /\ c.r = z.r /\ c.t = Ring!Cancelled
    BY <1>1, CancelFields
<1> HIDE DEF c
<1>3. /\ dark \in [Ring!Buttons -> [lit : BOOLEAN, moving : BOOLEAN]]
      /\ \A i \in Ring!Buttons : ~dark[i].lit
    BY DEF Ring!Dark
<1> HIDE DEF dark
<1>4. /\ d \in RingState /\ d.t = c.t /\ d.g = dark /\ d.r.hovered = Ring!NoButton
      /\ ~d.r.ready /\ d.r.clock = c.r.clock
    BY <1>2, <1>3 DEF RingState, Ring!Ring
<1> HIDE DEF d
<1>5. /\ q \in RingState /\ q.t = d.t /\ q.g = d.g /\ ~q.r.open /\ ~q.r.keyboard
      /\ q.r.ready = d.r.ready /\ q.r.hovered = d.r.hovered
      /\ q.r.clock = Committed(d.r.clock)
    BY <1>4, FinishFields
<1> HIDE DEF q
<1>6. q = Ring!Execute(s)
    BY DEF q, d, c, dark, z, Ring!Execute, Ring!FastHide
<1> QED BY <1>1, <1>2, <1>3, <1>4, <1>5, <1>6 DEF Chained, OneLink, Lit

(* The opening starts on a ring that was closed (start_open_sequence).     *)
LEMMA OpenStarts ==
    ASSUME NEW s \in RingState, OneLink(s), ~s.r.open, s.r.surface, NEW own \in BOOLEAN
    PROVE  LET z == [s EXCEPT !.r.selected = 0, !.r.open = TRUE, !.r.keyboard = TRUE,
                              !.r.byWidget = own, !.r.clock = Ring!Committed(@)]
               q == Ring!StartOpenSequence(z)
           IN  /\ Chained(q) /\ q.r.clock = Committed(s.r.clock) /\ ~q.r.ready /\ q.r.surface
               /\ Lit(s) => Lit(q)
<1> DEFINE z == [s EXCEPT !.r.selected = 0, !.r.open = TRUE, !.r.keyboard = TRUE,
                          !.r.byWidget = own, !.r.clock = Ring!Committed(@)]
           c == Ring!CancelOpenCloseTweens(z)
           q == Ring!StartOpenSequence(z)
<1>1. s.r \in Ring!Ring /\ s.r.clock \in Clock
    BY ClocksAgree DEF RingState, Ring!Ring
<1>2. /\ Committed(s.r.clock) \in Ring!Clock
      /\ Ring!Committed(s.r.clock) = Committed(s.r.clock)
    BY <1>1, ClocksAgree DEF Clock, Callbacks, Committed
<1>3. /\ z \in RingState /\ z.t = s.t /\ z.g = s.g /\ z.r.open /\ z.r.keyboard
      /\ z.r.surface = s.r.surface /\ z.r.hovered = s.r.hovered
      /\ z.r.clock = Committed(s.r.clock)
    BY <1>2, ButtonsFacts DEF RingState, Ring!Ring
<1> HIDE DEF z
<1>4. c \in RingState /\ c.r = z.r /\ c.g = z.g /\ c.t = Ring!Cancelled
    BY <1>3, CancelFields
<1>5. q = [c EXCEPT !.r.logo = IF @ = "hidden" THEN "loading" ELSE @,
                    !.r.exiting = FALSE, !.r.ready = FALSE, !.t["logo"] = "pause"]
    BY DEF Ring!StartOpenSequence
<1> HIDE DEF c, q
<1> DEFINE logo == IF c.r.logo = "hidden" THEN "loading" ELSE c.r.logo
           r == [c.r EXCEPT !.logo = logo, !.exiting = FALSE, !.ready = FALSE]
<1>6. logo \in {"hidden", "loading", "playing"}
    BY <1>4 DEF RingState, Ring!Ring
<1> HIDE DEF logo
<1>7. /\ r \in Ring!Ring /\ ~r.ready /\ r.open = c.r.open /\ r.keyboard = c.r.keyboard
      /\ r.surface = c.r.surface /\ r.hovered = c.r.hovered /\ r.clock = c.r.clock
    BY <1>4, <1>6 DEF RingState, Ring!Ring
<1>8. q.r = r
    BY <1>4, <1>5 DEF RingState, Ring!Ring, logo
<1>9. q.t = [c.t EXCEPT !["logo"] = "pause"] /\ q.g = c.g
    BY <1>4, <1>5 DEF RingState
<1>10. q \in RingState
    <2>1. q = [r |-> r, t |-> [c.t EXCEPT !["logo"] = "pause"], g |-> c.g]
        BY <1>4, <1>5 DEF RingState, Ring!Ring, logo
    <2>2. [c.t EXCEPT !["logo"] = "pause"] \in [Ring!Owners -> Ring!Ends]
        BY <1>4 DEF RingState, Ring!Owners, Ring!Ends
    <2> HIDE DEF r
    <2> QED BY <1>4, <1>7, <2>1, <2>2 DEF RingState
<1> HIDE DEF r
<1>11. OnlyLink(q.t, "logo")
    BY <1>4, <1>9, LinkFacts DEF Ring!Owners, Ring!Ends
<1>12. OneLink(q)
    <2>1. "logo" \in Ring!Owners /\ q.r.open /\ q.r.keyboard /\ q.r.surface /\ ~q.r.ready
        BY <1>3, <1>4, <1>7, <1>8 DEF Ring!Owners
    <2> QED BY <1>10, <1>11, <2>1, LinkedInOrder
<1>13. Lit(s) => Lit(q)
    BY <1>3, <1>4, <1>7, <1>8, <1>9, <1>10 DEF Lit
<1> QED BY <1>3, <1>4, <1>7, <1>8, <1>10, <1>12, <1>13 DEF Chained, z, q

(* The exit starts with everything put out (start_close_sequence).         *)
LEMMA CloseStarts ==
    ASSUME NEW s \in RingState, OneLink(s), s.r.open
    PROVE  LET q == Ring!StartCloseSequence(s)
           IN  /\ Chained(q) /\ q.r.clock = s.r.clock /\ ~q.r.ready /\ q.r.open
               /\ Lit(s) => Lit(q)
<1>0. PICK off \in BOOLEAN : off = FALSE
    OBVIOUS
<1> DEFINE b == Ring!CancelOpenCloseTweens(s)
           c == [b EXCEPT !.r.ready = FALSE, !.r.exiting = TRUE, !.r.hovered = Ring!NoButton]
           d == Ring!SetButtonHighlight(c, s.r.selected, off)
           e == Ring!SetButtonHighlight(d, s.r.hovered, off)
           q == Ring!StartCloseSequence(s)
<1>1. b \in RingState /\ b.r = s.r /\ b.g = s.g /\ b.t = Ring!Cancelled
    BY CancelFields
<1> HIDE DEF b
<1>2. /\ c \in RingState /\ c.t = b.t /\ c.g = b.g
      /\ ~c.r.ready /\ c.r.hovered = Ring!NoButton /\ c.r.selected = b.r.selected
      /\ c.r.open = b.r.open /\ c.r.keyboard = b.r.keyboard /\ c.r.surface = b.r.surface
      /\ c.r.clock = b.r.clock
    BY <1>1 DEF RingState, Ring!Ring
<1> HIDE DEF c
<1>3. s.r.selected \in Ring!Buttons /\ s.r.hovered \in Ring!Buttons \cup {Ring!NoButton}
    BY DEF RingState, Ring!Ring
<1>4. /\ d \in RingState /\ d.r = c.r /\ d.t = c.t
      /\ \A j \in Ring!Buttons : d.g[j].lit <=> j # s.r.selected /\ c.g[j].lit
    BY <1>0, <1>2, <1>3, HighlightFields
<1> HIDE DEF d
<1>5. /\ e \in RingState /\ e.r = d.r /\ e.t = d.t
      /\ \A j \in Ring!Buttons : e.g[j].lit <=> j # s.r.hovered /\ d.g[j].lit
    <2>1. d \in RingState /\ s.r.hovered \in Ring!Buttons \cup {Ring!NoButton}
          /\ off \in BOOLEAN
        BY <1>3, <1>4
    <2> QED BY <1>0, <2>1, HighlightFields
<1> HIDE DEF e
<1>6. q = [e EXCEPT !.t["hold"] = "burst"]
    BY <1>0 DEF Ring!StartCloseSequence, Ring!StartSlashes, b, c, d, e
<1> HIDE DEF q
<1>7. "hold" \in Ring!Owners /\ "burst" \in Ring!Ends \ {"none"}
    BY DEF Ring!Owners, Ring!Ends
<1>8. /\ q \in RingState /\ q.r = e.r /\ q.g = e.g
      /\ q.t = [Ring!Cancelled EXCEPT !["hold"] = "burst"]
    BY <1>1, <1>2, <1>4, <1>5, <1>6, <1>7, TweenFields
<1>9. OnlyLink(q.t, "hold")
    BY <1>7, <1>8, LinkFacts
<1>10. q.r.open /\ q.r.keyboard /\ q.r.surface /\ ~q.r.ready /\ q.r.clock = s.r.clock
       /\ q.r.hovered = Ring!NoButton
    BY <1>1, <1>2, <1>4, <1>5, <1>8 DEF OneLink
<1>11. OneLink(q)
    BY <1>7, <1>8, <1>9, <1>10, LinkedInOrder
<1>12. Lit(s) => Lit(q)
    BY <1>1, <1>2, <1>4, <1>5, <1>8, <1>10 DEF Lit
<1> QED BY <1>8, <1>10, <1>11, <1>12 DEF Chained, q

\* One tween is over: its end has started the next link, or closed the ring.
EndsWell(s, q) ==
    /\ Chained(q) /\ (Lit(s) => Lit(q))
    /\ q.r.clock \in {s.r.clock, Committed(s.r.clock)}
    /\ q.r.open => s.r.open
    /\ q.r.ready => q.r.open

LEMMA EndedStartsNext ==
    ASSUME NEW s, Chained(s), NEW o \in Ring!Owners, s.t[o] # "none"
    PROVE  EndsWell(s, Ring!Ended(s, o))
<1> DEFINE c == [s EXCEPT !.t[o] = "none"]
           q == Ring!Ended(s, o)
<1>1. /\ s \in RingState /\ OneLink(s) /\ s.r.open /\ s.r.surface /\ s.r.keyboard
      /\ ~s.r.ready /\ OnlyLink(s.t, o)
    <2>1. s \in RingState /\ OneLink(s) /\ s.t # Ring!Cancelled
        BY DEF Chained, Ring!Cancelled
    <2>2. s.t \in [Ring!Owners -> Ring!Ends]
        BY <2>1 DEF RingState
    <2>3. s.r.open /\ s.r.surface /\ s.r.keyboard /\ ~s.r.ready
        BY <2>1 DEF OneLink
    <2>4. OnlyLink(s.t, o)
        BY <2>1, <2>2, <2>3 DEF OneLink, OnlyLink
    <2> QED BY <2>1, <2>3, <2>4
<1>2. /\ c \in RingState /\ c.r = s.r /\ c.g = s.g /\ c.t = Ring!Cancelled
    <2>1. "none" \in Ring!Ends
        BY DEF Ring!Ends
    <2> QED BY <1>1, <2>1, TweenFields, LinkFacts
<1> HIDE DEF c
<1>3. ASSUME NEW p \in Ring!Owners, NEW e \in Ring!Ends \ {"none"},
             NEW x, x = [c EXCEPT !.t[p] = e]
      PROVE  EndsWell(s, x)
    <2>1. x \in RingState /\ x.r = c.r /\ x.g = c.g /\ x.t = [c.t EXCEPT ![p] = e]
        BY <1>2, <1>3, TweenFields
    <2>2. OnlyLink(x.t, p)
        BY <1>2, <2>1, LinkFacts
    <2>3. OneLink(x)
        BY <1>1, <1>2, <2>1, <2>2, LinkedInOrder
    <2>4. Lit(s) => Lit(x)
        BY <1>2, <2>1 DEF Lit
    <2> QED BY <1>1, <1>2, <2>1, <2>3, <2>4 DEF EndsWell, Chained
<1>4. CASE s.t[o] = "pause"
    <2>1. q = [c EXCEPT !.t["hold"] = "slashes"]
        BY <1>4 DEF Ring!Ended, c
    <2>2. "hold" \in Ring!Owners /\ "slashes" \in Ring!Ends \ {"none"}
        BY DEF Ring!Owners, Ring!Ends
    <2> HIDE DEF q
    <2>3. EndsWell(s, q)
        BY <1>3, <2>1, <2>2
    <2> QED BY <2>3 DEF q
<1>5. CASE s.t[o] = "slashes"
    <2>1. q = [c EXCEPT !.t["hold"] = "burst"]
        BY <1>5 DEF Ring!Ended, Ring!StartSlashes, c
    <2>2. "hold" \in Ring!Owners /\ "burst" \in Ring!Ends \ {"none"}
        BY DEF Ring!Owners, Ring!Ends
    <2> HIDE DEF q
    <2>3. EndsWell(s, q)
        BY <1>3, <2>1, <2>2
    <2> QED BY <2>3 DEF q
<1>6. CASE s.t[o] = "burst"
    <2>1. q = [c EXCEPT !.t["burst"] = "close"] \/ q = [c EXCEPT !.t["burst"] = "ready"]
        <3>1. CASE s.r.exiting
            BY <1>6, <3>1 DEF Ring!Ended, Ring!StartExitBurst, c
        <3>2. CASE ~s.r.exiting
            BY <1>6, <3>2 DEF Ring!Ended, Ring!StartBurst, c
        <3> QED BY <3>1, <3>2
    <2>2. "burst" \in Ring!Owners /\ {"close", "ready"} \subseteq Ring!Ends \ {"none"}
        BY DEF Ring!Owners, Ring!Ends
    <2> HIDE DEF q
    <2>3. EndsWell(s, q)
        BY <1>3, <2>1, <2>2
    <2> QED BY <2>3 DEF q
<1>7. CASE s.t[o] = "ready"
    <2> DEFINE d == [c EXCEPT !.r.ready = TRUE]
               on == Ring!IsHighlighted(d.r, s.r.selected)
    <2>1. /\ d \in RingState /\ d.t = c.t /\ d.g = c.g /\ d.r.ready /\ d.r.open = c.r.open
          /\ d.r.keyboard = c.r.keyboard /\ d.r.surface = c.r.surface
          /\ d.r.hovered = c.r.hovered /\ d.r.selected = c.r.selected
          /\ d.r.clock = c.r.clock
        BY <1>2 DEF RingState, Ring!Ring
    <2>2. q = Ring!SetButtonHighlight(d, s.r.selected, on)
        BY <1>7 DEF Ring!Ended, Ring!UpdateHighlight, c
    <2>3. on = TRUE /\ s.r.selected \in Ring!Buttons
        BY <1>1, <1>2, <2>1 DEF Ring!IsHighlighted, RingState, Ring!Ring
    <2> HIDE DEF d, on, q
    <2>4. /\ q \in RingState /\ q.r = d.r /\ q.t = d.t
          /\ \A j \in Ring!Buttons : q.g[j].lit <=> j = s.r.selected \/ d.g[j].lit
        <3>1. PICK on1 \in BOOLEAN : on1 /\ q = Ring!SetButtonHighlight(d, s.r.selected, on1)
            BY <2>2, <2>3, Zenon
        <3>2. d \in RingState /\ s.r.selected \in Ring!Buttons \cup {Ring!NoButton}
            BY <2>1, <2>3
        <3>3. on1 \in BOOLEAN
            OBVIOUS
        <3> DEFINE x == Ring!SetButtonHighlight(d, s.r.selected, on1)
        <3>4. /\ x \in RingState /\ x.r = d.r /\ x.t = d.t
              /\ \A j \in Ring!Buttons : x.g[j].lit <=> IF j = s.r.selected THEN on1 ELSE d.g[j].lit
            BY <3>2, <3>3, HighlightFields
        <3> HIDE DEF x
        <3>5. q = x
            BY <3>1 DEF x
        <3> QED BY <3>1, <3>4, <3>5
    <2>5. OneLink(q)
        <3>1. \A p \in Ring!Owners : q.t[p] = "none"
            BY <1>2, <2>1, <2>4 DEF Ring!Cancelled
        <3> QED BY <1>1, <1>2, <2>1, <2>4, <3>1 DEF OneLink
    <2>6. Lit(s) => Lit(q)
        <3> SUFFICES ASSUME Lit(s) PROVE Lit(q)
            OBVIOUS
        <3>1. s.r.hovered = Ring!NoButton /\ \A j \in Ring!Buttons : ~s.g[j].lit
            BY <1>1 DEF Lit
        <3> QED BY <1>1, <1>2, <2>1, <2>4, <3>1, ButtonsFacts DEF Lit
    <2>7. EndsWell(s, q)
        BY <1>1, <1>2, <2>1, <2>4, <2>5, <2>6 DEF EndsWell, Chained
    <2> QED BY <2>7 DEF q
<1>8. CASE s.t[o] = "close"
    <2>1. q = Ring!FinishClose(c)
        BY <1>8 DEF Ring!Ended, c
    <2> HIDE DEF q
    <2>2. /\ q \in RingState /\ q.t = c.t /\ q.g = c.g
          /\ ~q.r.open /\ ~q.r.keyboard /\ q.r.ready = c.r.ready
          /\ q.r.hovered = c.r.hovered /\ q.r.clock = Committed(c.r.clock)
        BY <1>2, <2>1, FinishFields
    <2>3. OneLink(q)
        BY <1>2, <2>2 DEF OneLink
    <2>4. Lit(s) => Lit(q)
        BY <1>1, <1>2, <2>2 DEF Lit
    <2>5. EndsWell(s, q)
        BY <1>1, <1>2, <2>2, <2>3, <2>4 DEF EndsWell, Chained
    <2> QED BY <2>5 DEF q
<1>9. s.t[o] \in Ring!Ends
    BY <1>1 DEF OnlyLink
<1> QED BY <1>4, <1>5, <1>6, <1>7, <1>8, <1>9 DEF Ring!Ends

(* Some highlights are done: nothing but their motion changes.             *)
LEMMA SettledFields ==
    ASSUME NEW s \in RingState, NEW done
    PROVE  LET x == Ring!Settled(s, done)
           IN  /\ x \in RingState /\ x.r = s.r /\ x.t = s.t
               /\ \A i \in Ring!Buttons : x.g[i].lit <=> s.g[i].lit
<1> DEFINE still(i) == [s.g[i] EXCEPT !.moving = @ /\ i \notin done]
           g == [i \in Ring!Buttons |-> still(i)]
           x == Ring!Settled(s, done)
<1>1. ASSUME NEW i \in Ring!Buttons
      PROVE  /\ still(i) \in [lit : BOOLEAN, moving : BOOLEAN]
             /\ still(i).lit <=> s.g[i].lit
    <2>1. s.g[i] \in [lit : BOOLEAN, moving : BOOLEAN]
        BY DEF RingState
    <2>2. PICK m \in BOOLEAN : m = (s.g[i].moving /\ i \notin done)
        OBVIOUS
    <2>3. still(i) = [s.g[i] EXCEPT !.moving = m]
        BY <2>1, <2>2
    <2> HIDE DEF still
    <2> QED BY <2>1, <2>3
<1>2. x = [s EXCEPT !.g = g]
    BY DEF Ring!Settled, RingState
<1> HIDE DEF still, x
<1>3. g \in [Ring!Buttons -> [lit : BOOLEAN, moving : BOOLEAN]]
    BY <1>1
<1>4. \A i \in Ring!Buttons : g[i].lit <=> s.g[i].lit
    BY <1>1
<1> HIDE DEF g
<1>5. x \in RingState /\ x.r = s.r /\ x.t = s.t /\ x.g = g
    BY <1>2, <1>3 DEF RingState
<1> QED BY <1>4, <1>5 DEF x

(* Only the clock of the ring changes.                                     *)
Reclocked(s, c) == [s EXCEPT !.r.clock = c]

LEMMA ReclockFields ==
    ASSUME NEW s, Chained(s), NEW c \in Clock, NEW q, q = Reclocked(s, c)
    PROVE  /\ Chained(q) /\ q.r.clock = c /\ q.r.open = s.r.open /\ q.r.ready = s.r.ready
           /\ q.r.surface = s.r.surface
           /\ Lit(s) => Lit(q)
           /\ Ring!Active(q) <=> Ring!Active(s)
<1>1. c \in Ring!Clock
    BY ClocksAgree
<1>2. /\ q \in RingState /\ q.t = s.t /\ q.g = s.g /\ q.r.clock = c
      /\ q.r.open = s.r.open /\ q.r.ready = s.r.ready /\ q.r.keyboard = s.r.keyboard
      /\ q.r.surface = s.r.surface /\ q.r.hovered = s.r.hovered
      /\ q.r.selected = s.r.selected /\ q.r.logo = s.r.logo
    BY <1>1 DEF Reclocked, Chained, RingState, Ring!Ring
<1>3. OneLink(q)
    BY <1>2 DEF Chained, OneLink
<1>4. Lit(s) => Lit(q)
    BY <1>2 DEF Lit
<1>5. Ring!Active(q) <=> Ring!Active(s)
    BY <1>2 DEF Ring!Active
<1> QED BY <1>2, <1>3, <1>4, <1>5 DEF Chained

\* What a handler makes of state s: the chain in order, the next frame on
\* its way, nothing opened, and input taken by a closed ring only
\* if it was so before.
Keeps(s, q) ==
    /\ Chained(q) /\ Quiet(q.r.clock) /\ Paced(q) /\ (Lit(s) => Lit(q))
    /\ q.r.open => s.r.open
    /\ q.r.ready /\ ~q.r.open => s.r.ready /\ ~s.r.open

LEMMA AskedAgainPaces ==
    ASSUME NEW s, Chained(s), ClockOK(s.r.clock), s.r.clock.callback # "none"
    PROVE  LET q == Ring!AskedAgain(s)
           IN  Keeps(s, q) /\ q.r.open = s.r.open /\ q.r.ready = s.r.ready
<1> DEFINE q == Ring!AskedAgain(s)
<1>1. /\ s.r.clock \in Clock /\ Ring!Committed(s.r.clock) = Committed(s.r.clock)
      /\ Ring!Deferred(Committed(s.r.clock)) = Deferred(Committed(s.r.clock))
    BY ClocksAgree DEF ClockOK
<1>2. /\ Quiet(Committed(s.r.clock)) /\ Committed(s.r.clock) \in Clock
      /\ Committed(s.r.clock).callback = "committed"
    BY <1>1, ClockMoves DEF Quiet, ClockOK
<1>3. /\ Quiet(Deferred(Committed(s.r.clock))) /\ Deferred(Committed(s.r.clock)) \in Clock
      /\ Deferred(Committed(s.r.clock)).callback = "committed"
      /\ Deferred(Committed(s.r.clock)).redraw
    BY <1>2, ClockMoves DEF Quiet, ClockOK
<1>4. CASE s.r.open /\ Ring!Active(s)
    <2>1. q = Reclocked(s, Deferred(Committed(s.r.clock)))
        BY <1>1, <1>4 DEF Ring!AskedAgain, Reclocked
    <2> HIDE DEF q
    <2>2. Keeps(s, q) /\ q.r.open = s.r.open /\ q.r.ready = s.r.ready
        BY <1>3, <2>1, ReclockFields DEF Keeps, Paced
    <2> QED BY <2>2 DEF q
<1>5. CASE ~(s.r.open /\ Ring!Active(s))
    <2>1. q = Reclocked(s, Committed(s.r.clock))
        BY <1>1, <1>5 DEF Ring!AskedAgain, Reclocked
    <2> HIDE DEF q
    <2>2. Keeps(s, q) /\ q.r.open = s.r.open /\ q.r.ready = s.r.ready
        BY <1>2, <1>5, <2>1, ReclockFields DEF Keeps, Paced
    <2> QED BY <2>2 DEF q
<1> QED BY <1>4, <1>5

(* logout_paint: the animations tick, and the next frame is asked for as   *)
(* long as they go on.                                                     *)
LEMMA PaintPaces ==
    ASSUME NEW s, Chained(s), ClockOK(s.r.clock), s.r.clock.callback # "none",
           NEW q \in Ring!Paint(s)
    PROVE  Keeps(s, q)
<1>1. PICK x \in Ring!Ticked(s) : q = Ring!AskedAgain(x)
    BY DEF Ring!Paint
<1>2. /\ Chained(x) /\ (Lit(s) => Lit(x))
      /\ x.r.clock \in {s.r.clock, Committed(s.r.clock)}
      /\ (x.r.open => s.r.open)
      /\ (x.r.ready /\ ~x.r.open => s.r.ready /\ ~s.r.open)
    <2>1. ASSUME NEW done, NEW y, y = Ring!Settled(s, done)
          PROVE  Chained(y) /\ (Lit(s) => Lit(y)) /\ y.r = s.r /\ y.t = s.t
        <3>1. s \in RingState
            BY DEF Chained
        <3>2. /\ y \in RingState /\ y.r = s.r /\ y.t = s.t
              /\ \A i \in Ring!Buttons : y.g[i].lit <=> s.g[i].lit
            BY <2>1, <3>1, SettledFields
        <3>3. OneLink(y)
            BY <3>2 DEF Chained, OneLink
        <3>4. Lit(s) => Lit(y)
            BY <3>2 DEF Lit
        <3> QED BY <3>2, <3>3, <3>4 DEF Chained
    <2>2. CASE \E done : x = Ring!Settled(s, done)
        BY <2>1, <2>2
    <2>3. ASSUME NEW done, NEW o \in Ring!Owners, s.t[o] # "none",
                 x = Ring!Ended(Ring!Settled(s, done), o)
          PROVE  /\ Chained(x) /\ (Lit(s) => Lit(x))
                 /\ x.r.clock \in {s.r.clock, Committed(s.r.clock)}
                 /\ (x.r.open => s.r.open)
                 /\ (x.r.ready /\ ~x.r.open => s.r.ready /\ ~s.r.open)
        <3> DEFINE y == Ring!Settled(s, done)
        <3>2. Chained(y) /\ (Lit(s) => Lit(y)) /\ y.r = s.r /\ y.t = s.t
            BY <2>1
        <3> HIDE DEF y
        <3>3. x = Ring!Ended(y, o)
            BY <2>3 DEF y
        <3>4. EndsWell(y, x)
            BY <2>3, <3>2, <3>3, EndedStartsNext
        <3> QED BY <3>2, <3>4 DEF EndsWell
    <2>4. CASE x \in {Ring!Settled(s, done) :
                         done \in SUBSET {i \in Ring!Buttons : s.g[i].moving}}
        BY <2>2, <2>4
    <2>5. CASE \E y \in {Ring!Settled(s, done) :
                            done \in SUBSET {i \in Ring!Buttons : s.g[i].moving}} :
                  \E o \in {p \in Ring!Owners : s.t[p] # "none"} : x = Ring!Ended(y, o)
        <3>1. PICK y \in {Ring!Settled(s, done) :
                             done \in SUBSET {i \in Ring!Buttons : s.g[i].moving}},
                   o \in {p \in Ring!Owners : s.t[p] # "none"} : x = Ring!Ended(y, o)
            BY <2>5
        <3>2. PICK done : y = Ring!Settled(s, done)
            OBVIOUS
        <3>3. o \in Ring!Owners /\ s.t[o] # "none" /\ x = Ring!Ended(Ring!Settled(s, done), o)
            BY <3>1, <3>2
        <3> QED BY <2>3, <3>3
    <2> QED BY <1>1, <2>4, <2>5 DEF Ring!Ticked
<1>3. ClockOK(x.r.clock) /\ x.r.clock.callback # "none"
    BY <1>2, ClockMoves DEF Quiet, ClockOK
<1>4. Keeps(x, q) /\ q.r.open = x.r.open /\ q.r.ready = x.r.ready
    BY <1>1, <1>2, <1>3, AskedAgainPaces
<1> QED BY <1>2, <1>4 DEF Keeps

(* overlay_panel_request_frame, which a closed ring ignores.               *)
LEMMA RequestPaces ==
    ASSUME NEW s, Chained(s), Quiet(s.r.clock), NEW q \in Ring!RequestFrame(s)
    PROVE  Keeps(s, q)
<1>1. /\ ClockOK(s.r.clock) /\ s.r.clock \in Clock
      /\ Ring!Deferred(s.r.clock) = Deferred(s.r.clock)
      /\ Ring!Scheduled(s.r.clock) = Scheduled(s.r.clock)
      /\ Ring!FirstDraw(s.r.clock) = FirstDraw(s.r.clock)
    BY ClocksAgree DEF Quiet, ClockOK
<1>2. CASE ~s.r.surface \/ ~s.r.open
    <2>1. q = s /\ ~s.r.open
        BY <1>2 DEF Ring!RequestFrame, Chained, OneLink
    <2> QED BY <2>1 DEF Keeps, Paced
<1>3. CASE s.r.surface /\ s.r.open /\ s.r.clock.callback # "none"
    <2>1. q = Reclocked(s, Deferred(s.r.clock))
        BY <1>1, <1>3 DEF Ring!RequestFrame, Reclocked
    <2>2. /\ Quiet(Deferred(s.r.clock)) /\ Deferred(s.r.clock) \in Clock
          /\ Deferred(s.r.clock).callback = "committed" /\ Deferred(s.r.clock).redraw
        BY <1>1, <1>3, ClockMoves DEF Quiet, ClockOK, Clock, Callbacks
    <2> QED BY <2>1, <2>2, ReclockFields DEF Keeps, Paced
<1>4. CASE s.r.surface /\ s.r.open /\ s.r.clock.callback = "none" /\ s.r.clock.mapped
    <2>1. q = Reclocked(s, Scheduled(s.r.clock))
        BY <1>1, <1>4 DEF Ring!RequestFrame, Reclocked
    <2>2. /\ Quiet(Scheduled(s.r.clock)) /\ Scheduled(s.r.clock) \in Clock
          /\ Scheduled(s.r.clock).callback = "committed" /\ Scheduled(s.r.clock).redraw
        BY <1>1, <1>4, ClockMoves DEF Quiet, ClockOK
    <2> QED BY <2>1, <2>2, ReclockFields DEF Keeps, Paced
<1>5. CASE s.r.surface /\ s.r.open /\ s.r.clock.callback = "none" /\ ~s.r.clock.mapped
    <2> DEFINE d == Reclocked(s, FirstDraw(s.r.clock))
    <2>1. q \in Ring!Paint(d)
        BY <1>1, <1>5 DEF Ring!RequestFrame, Reclocked
    <2> HIDE DEF d
    <2>2. /\ ClockOK(FirstDraw(s.r.clock)) /\ FirstDraw(s.r.clock) \in Clock
          /\ FirstDraw(s.r.clock).callback # "none"
        BY <1>1, <1>5, ClockMoves DEF ClockOK
    <2>3. /\ Chained(d) /\ d.r.clock = FirstDraw(s.r.clock) /\ d.r.open = s.r.open
          /\ d.r.ready = s.r.ready /\ (Lit(s) => Lit(d))
        BY <2>2, ReclockFields DEF d
    <2>4. Keeps(d, q)
        BY <2>1, <2>2, <2>3, PaintPaces
    <2> QED BY <2>3, <2>4 DEF Keeps
<1> QED BY <1>2, <1>3, <1>4, <1>5

(* The compositor's answer: the repaint it was asked for, or rest.         *)
LEMMA FramePaces ==
    ASSUME NEW s, Chained(s), Quiet(s.r.clock), Paced(s),
           s.r.clock.callback = "committed", NEW q \in Ring!FrameDone(s)
    PROVE  Keeps(s, q)
<1>1. /\ ClockOK(s.r.clock) /\ s.r.clock \in Clock
      /\ Ring!DoneForDraw(s.r.clock) = DoneForDraw(s.r.clock)
      /\ Ring!DoneIdle(s.r.clock) = DoneIdle(s.r.clock)
    BY ClocksAgree DEF Quiet, ClockOK
<1>2. CASE s.r.clock.redraw
    <2> DEFINE d == Reclocked(s, DoneForDraw(s.r.clock))
    <2>1. q \in Ring!Paint(d)
        BY <1>1, <1>2 DEF Ring!FrameDone, Reclocked
    <2> HIDE DEF d
    <2>2. /\ ClockOK(DoneForDraw(s.r.clock)) /\ DoneForDraw(s.r.clock) \in Clock
          /\ DoneForDraw(s.r.clock).callback # "none"
        BY <1>1, ClockMoves DEF ClockOK
    <2>3. /\ Chained(d) /\ d.r.clock = DoneForDraw(s.r.clock) /\ d.r.open = s.r.open
          /\ d.r.ready = s.r.ready /\ (Lit(s) => Lit(d))
        BY <2>2, ReclockFields DEF d
    <2>4. Keeps(d, q)
        BY <2>1, <2>2, <2>3, PaintPaces
    <2> QED BY <2>3, <2>4 DEF Keeps
<1>3. CASE ~s.r.clock.redraw
    <2>1. q = Reclocked(s, DoneIdle(s.r.clock))
        BY <1>1, <1>3 DEF Ring!FrameDone, Reclocked
    <2>2. Quiet(DoneIdle(s.r.clock)) /\ DoneIdle(s.r.clock) \in Clock
        BY <1>1, <1>3, ClockMoves DEF Quiet, ClockOK
    <2> QED BY <1>3, <2>1, <2>2, ReclockFields DEF Keeps, Paced
<1> QED BY <1>2, <1>3

\* The same of a handler that may open the ring.
Answers(s, q) ==
    /\ Chained(q) /\ Quiet(q.r.clock) /\ (Lit(s) => Lit(q))
    /\ q.r.ready /\ ~q.r.open => s.r.ready /\ ~s.r.open

(* logout_toggle opens a closed ring and starts the exit of an open one.   *)
LEMMA TogglePaces ==
    ASSUME NEW s, Chained(s), Quiet(s.r.clock), NEW own \in BOOLEAN,
           NEW q \in Ring!Toggle(s, own)
    PROVE  Answers(s, q) /\ Paced(q)
<1>1. CASE ~s.r.surface
    <2>1. q = s /\ ~s.r.open
        BY <1>1 DEF Ring!Toggle, Chained, OneLink
    <2> QED BY <2>1 DEF Answers, Paced
<1>2. CASE s.r.surface /\ s.r.open
    <2> DEFINE d == Ring!StartCloseSequence(s)
    <2>1. q \in Ring!RequestFrame(d)
        BY <1>2 DEF Ring!Toggle
    <2> HIDE DEF d
    <2>2. Chained(d) /\ d.r.clock = s.r.clock /\ ~d.r.ready /\ d.r.open /\ (Lit(s) => Lit(d))
        BY <1>2, CloseStarts DEF Chained, d
    <2>3. Keeps(d, q)
        BY <2>1, <2>2, RequestPaces
    <2> QED BY <2>2, <2>3 DEF Keeps, Answers
<1>3. CASE s.r.surface /\ ~s.r.open
    <2> DEFINE z == [s EXCEPT !.r.selected = 0, !.r.open = TRUE, !.r.keyboard = TRUE,
                              !.r.byWidget = own, !.r.clock = Ring!Committed(@)]
               d == Ring!StartOpenSequence(z)
    <2>1. q \in Ring!RequestFrame(d)
        BY <1>3 DEF Ring!Toggle
    <2>2. Chained(d) /\ d.r.clock = Committed(s.r.clock) /\ ~d.r.ready /\ (Lit(s) => Lit(d))
        BY <1>3, OpenStarts DEF Chained
    <2> HIDE DEF d
    <2>3. Quiet(d.r.clock)
        BY <2>2, ClockMoves DEF Quiet, ClockOK
    <2>4. Keeps(d, q)
        BY <2>1, <2>2, <2>3, RequestPaces
    <2> QED BY <2>2, <2>4 DEF Keeps, Answers
<1> QED BY <1>1, <1>2, <1>3

\* A handler that moves the selection or the hover alone.
Touches(s, q) ==
    /\ Chained(q) /\ q.r.clock = s.r.clock /\ (Lit(s) => Lit(q))
    /\ q.r.open = s.r.open /\ q.r.ready = s.r.ready

(* A highlight is set as the selection and the hover say.                  *)
LEMMA UpdateFields ==
    \A d \in RingState, i \in Ring!Buttons \cup {Ring!NoButton} :
        LET q == Ring!UpdateHighlight(d, i)
        IN  /\ q \in RingState /\ q.r = d.r /\ q.t = d.t
            /\ \A k \in Ring!Buttons :
                  q.g[k].lit <=> IF k = i THEN k = d.r.selected \/ k = d.r.hovered
                                 ELSE d.g[k].lit
<1> SUFFICES ASSUME NEW d \in RingState, NEW i \in Ring!Buttons \cup {Ring!NoButton}
             PROVE  LET q == Ring!UpdateHighlight(d, i)
                    IN  /\ q \in RingState /\ q.r = d.r /\ q.t = d.t
                        /\ \A k \in Ring!Buttons :
                              q.g[k].lit <=> IF k = i THEN k = d.r.selected \/ k = d.r.hovered
                                             ELSE d.g[k].lit
    OBVIOUS
<1>1. PICK on \in BOOLEAN : on = (i \in {d.r.selected, d.r.hovered})
    <2>1. (i \in {d.r.selected, d.r.hovered}) \in BOOLEAN
        OBVIOUS
    <2> QED BY <2>1, Zenon
<1> DEFINE q == Ring!UpdateHighlight(d, i)
           x == Ring!SetButtonHighlight(d, i, on)
<1>2. q = x
    BY <1>1 DEF Ring!UpdateHighlight, Ring!IsHighlighted
<1>3. /\ x \in RingState /\ x.r = d.r /\ x.t = d.t
      /\ \A k \in Ring!Buttons : x.g[k].lit <=> IF k = i THEN on ELSE d.g[k].lit
    BY HighlightFields
<1> HIDE DEF x, q
<1>4. /\ q \in RingState /\ q.r = d.r /\ q.t = d.t
      /\ \A k \in Ring!Buttons :
            q.g[k].lit <=> IF k = i THEN k = d.r.selected \/ k = d.r.hovered
                           ELSE d.g[k].lit
    BY <1>1, <1>2, <1>3
<1> QED BY <1>4 DEF q

(* Two highlights follow the new selection or the new hover.               *)
LEMMA HighlightsFollow ==
    ASSUME NEW s, Chained(s), s.r.ready, NEW d \in RingState,
           d.t = s.t, d.g = s.g, d.r.open = s.r.open, d.r.ready = s.r.ready,
           d.r.surface = s.r.surface, d.r.keyboard = s.r.keyboard, d.r.clock = s.r.clock,
           NEW i \in Ring!Buttons \cup {Ring!NoButton},
           NEW j \in Ring!Buttons \cup {Ring!NoButton},
           \A k \in Ring!Buttons \ {i, j} :
              k = s.r.selected \/ k = s.r.hovered <=> k = d.r.selected \/ k = d.r.hovered
    PROVE  Touches(s, Ring!UpdateHighlight(Ring!UpdateHighlight(d, i), j))
<1> DEFINE e == Ring!UpdateHighlight(d, i)
           q == Ring!UpdateHighlight(e, j)
<1>1. /\ e \in RingState /\ e.r = d.r /\ e.t = d.t
      /\ \A k \in Ring!Buttons :
            e.g[k].lit <=> IF k = i THEN k = d.r.selected \/ k = d.r.hovered ELSE d.g[k].lit
    <2>1. d \in RingState /\ i \in Ring!Buttons \cup {Ring!NoButton}
        OBVIOUS
    <2> QED BY ONLY <2>1, UpdateFields
<1> HIDE DEF e
<1>2. /\ q \in RingState /\ q.r = e.r /\ q.t = e.t
      /\ \A k \in Ring!Buttons :
            q.g[k].lit <=> IF k = j THEN k = e.r.selected \/ k = e.r.hovered ELSE e.g[k].lit
    <2>1. e \in RingState /\ j \in Ring!Buttons \cup {Ring!NoButton}
        BY <1>1
    <2> QED BY ONLY <2>1, UpdateFields
<1> HIDE DEF q
<1>3. /\ q.t = s.t /\ q.r.open = s.r.open /\ q.r.ready = s.r.ready
      /\ q.r.surface = s.r.surface /\ q.r.keyboard = s.r.keyboard /\ q.r.clock = s.r.clock
      /\ q.r.selected = d.r.selected /\ q.r.hovered = d.r.hovered
    BY <1>1, <1>2
<1>4. OneLink(q)
    BY ONLY <1>3, Chained(s) DEF Chained, OneLink
<1>5. \A k \in Ring!Buttons : q.g[k].lit <=>
          IF k \in {i, j} THEN k = d.r.selected \/ k = d.r.hovered ELSE s.g[k].lit
    BY <1>1, <1>2
<1>6. Lit(s) => Lit(q)
    BY <1>3, <1>5 DEF Lit
<1> QED BY <1>2, <1>3, <1>4, <1>6 DEF Touches, Chained, q, e

LEMMA SelectTouches ==
    ASSUME NEW s, Chained(s), s.r.ready, NEW i \in Ring!Buttons
    PROVE  Touches(s, Ring!Select(s, i))
<1> DEFINE d == [s EXCEPT !.r.selected = i]
<1>1. /\ d \in RingState /\ d.t = s.t /\ d.g = s.g /\ d.r.open = s.r.open
      /\ d.r.ready = s.r.ready /\ d.r.surface = s.r.surface /\ d.r.keyboard = s.r.keyboard
      /\ d.r.clock = s.r.clock /\ d.r.selected = i /\ d.r.hovered = s.r.hovered
    BY DEF Chained, RingState, Ring!Ring
<1>2. s.r.selected \in Ring!Buttons
    BY DEF Chained, RingState, Ring!Ring
<1>3. Ring!Select(s, i) = Ring!UpdateHighlight(Ring!UpdateHighlight(d, s.r.selected), i)
    BY DEF Ring!Select
<1> HIDE DEF d
<1> QED BY <1>1, <1>2, <1>3, HighlightsFollow

LEMMA HoverTouches ==
    ASSUME NEW s, Chained(s), NEW i \in Ring!Buttons \cup {Ring!NoButton}
    PROVE  Touches(s, Ring!HandleHover(s, i))
<1>1. CASE ~s.r.ready \/ i = s.r.hovered
    BY <1>1 DEF Ring!HandleHover, Touches
<1>2. CASE s.r.ready /\ i # s.r.hovered
    <2> DEFINE d == [s EXCEPT !.r.hovered = i]
    <2>1. /\ d \in RingState /\ d.t = s.t /\ d.g = s.g /\ d.r.open = s.r.open
          /\ d.r.ready = s.r.ready /\ d.r.surface = s.r.surface
          /\ d.r.keyboard = s.r.keyboard /\ d.r.clock = s.r.clock
          /\ d.r.selected = s.r.selected /\ d.r.hovered = i
        BY DEF Chained, RingState, Ring!Ring
    <2>2. s.r.hovered \in Ring!Buttons \cup {Ring!NoButton}
        BY DEF Chained, RingState, Ring!Ring
    <2>3. Ring!HandleHover(s, i) = Ring!UpdateHighlight(Ring!UpdateHighlight(d, s.r.hovered), i)
        BY <1>2 DEF Ring!HandleHover
    <2> HIDE DEF d
    <2> QED BY <1>2, <2>1, <2>2, <2>3, HighlightsFollow
<1> QED BY <1>1, <1>2

(* The whole handler: what it touched, and the request for a frame.        *)
LEMMA TouchedIsPaced ==
    ASSUME NEW s, Quiet(s.r.clock), NEW d, Touches(s, d), NEW q \in Ring!RequestFrame(d)
    PROVE  Keeps(s, q)
<1>1. Keeps(d, q)
    BY RequestPaces DEF Touches
<1> QED BY <1>1 DEF Touches, Keeps

LEMMA AnsweredIsPaced ==
    ASSUME NEW s, NEW d, Answers(s, d), NEW q \in Ring!RequestFrame(d)
    PROVE  Answers(s, q) /\ Paced(q) /\ (q.r.open => d.r.open)
<1>1. Keeps(d, q)
    BY RequestPaces DEF Answers
<1> QED BY <1>1 DEF Answers, Keeps

\* The rest of the invariant of the ring.
RingCount ==
    /\ seat \in [focus : BOOLEAN, region : BOOLEAN] /\ torn \in BOOLEAN
    /\ ran \in 0..2 /\ ran < 2 /\ (ring.open \/ ring.ready => ran = 0)

\* All of it, by the state as Here has it.
RingPlain ==
    /\ Chained(Ring!Here) /\ Quiet(ring.clock) /\ Paced(Ring!Here)
    /\ ~torn => Lit(Ring!Here)
    /\ RingCount

LEMMA HereFields ==
    Ring!Here.r = ring /\ Ring!Here.t = tween /\ Ring!Here.g = glow
BY DEF Ring!Here

LEMMA HereTyped ==
    Ring!Here \in RingState <=> /\ ring \in Ring!Ring
                              /\ tween \in [Ring!Owners -> Ring!Ends]
                              /\ glow \in [Ring!Buttons -> [lit : BOOLEAN, moving : BOOLEAN]]
<1>1. ASSUME Ring!Here \in RingState
      PROVE  /\ ring \in Ring!Ring /\ tween \in [Ring!Owners -> Ring!Ends]
             /\ glow \in [Ring!Buttons -> [lit : BOOLEAN, moving : BOOLEAN]]
    BY <1>1, HereFields DEF RingState
<1>2. ASSUME ring \in Ring!Ring, tween \in [Ring!Owners -> Ring!Ends],
             glow \in [Ring!Buttons -> [lit : BOOLEAN, moving : BOOLEAN]]
      PROVE  Ring!Here \in RingState
    BY <1>2 DEF RingState, Ring!Here
<1> QED BY <1>1, <1>2

LEMMA RingInvPlain == RingInv <=> RingPlain
<1>1. Ring!ClockOK(ring.clock) <=> ClockOK(ring.clock)
    BY ClocksAgree
<1>2. Ring!TypeOK /\ OneLink(Ring!Here) /\ Quiet(ring.clock) /\ ran < 2
          /\ (ring.open \/ ring.ready => ran = 0)
      <=> Chained(Ring!Here) /\ Quiet(ring.clock) /\ RingCount
    BY <1>1, HereTyped DEF Ring!TypeOK, Chained, RingCount, Quiet
<1> QED BY <1>2 DEF RingInv, RingPlain

\* The ring after a step that made q of it.
LEMMA BecomesFields ==
    ASSUME NEW q \in RingState, Ring!Becomes(q)
    PROVE  Ring!Here' = q /\ ring' = q.r
BY DEF RingState, Ring!Becomes, Ring!Here

LEMMA ClearTouches ==
    ASSUME NEW s, Chained(s)
    PROVE  Touches(s, Ring!ClearHover(s))
<1>1. CASE s.r.hovered = Ring!NoButton
    BY <1>1 DEF Ring!ClearHover, Touches
<1>2. CASE s.r.hovered # Ring!NoButton
    <2> DEFINE d == [s EXCEPT !.r.hovered = Ring!NoButton]
               q == Ring!UpdateHighlight(d, s.r.hovered)
    <2>1. /\ d \in RingState /\ d.t = s.t /\ d.g = s.g /\ d.r.open = s.r.open
          /\ d.r.ready = s.r.ready /\ d.r.surface = s.r.surface
          /\ d.r.keyboard = s.r.keyboard /\ d.r.clock = s.r.clock
          /\ d.r.selected = s.r.selected /\ d.r.hovered = Ring!NoButton
        BY DEF Chained, RingState, Ring!Ring
    <2>2. s.r.hovered \in Ring!Buttons \cup {Ring!NoButton}
        BY DEF Chained, RingState, Ring!Ring
    <2>3. Ring!ClearHover(s) = q
        BY <1>2 DEF Ring!ClearHover
    <2> HIDE DEF d
    <2>4. /\ q \in RingState /\ q.r = d.r /\ q.t = d.t
          /\ \A k \in Ring!Buttons :
                q.g[k].lit <=> IF k = s.r.hovered THEN k = d.r.selected \/ k = d.r.hovered
                               ELSE d.g[k].lit
        <3>1. d \in RingState
            BY <2>1
        <3> QED BY ONLY <2>2, <3>1, UpdateFields
    <2> HIDE DEF q
    <2>5. OneLink(q)
        BY <2>1, <2>4 DEF Chained, OneLink
    <2>6. Lit(s) => Lit(q)
        BY <1>2, <2>1, <2>4, ButtonsFacts DEF Lit
    <2>7. Touches(s, q)
        BY <2>1, <2>4, <2>5, <2>6 DEF Touches, Chained
    <2> QED BY <2>3, <2>7
<1> QED BY <1>1, <1>2

\* A handler that may open the ring, and one that may not.
LEMMA RingAfter ==
    ASSUME RingPlain, NEW q, Answers(Ring!Here, q), Paced(q), Ring!Becomes(q),
           UNCHANGED torn, RingCount'
    PROVE  RingPlain'
<1>1. Ring!Here' = q /\ ring' = q.r
    BY BecomesFields DEF Answers, Chained
<1> QED BY <1>1 DEF RingPlain, Answers

LEMMA RingOpens ==
    ASSUME RingPlain, NEW q, Answers(Ring!Here, q), Paced(q), Ring!Becomes(q),
           Ring!Opens, UNCHANGED <<seat, torn>>
    PROVE  RingPlain'
<1>1. ring' = q.r
    BY BecomesFields DEF Answers, Chained
<1>2. RingCount'
    BY <1>1, HereFields DEF RingPlain, RingCount, Ring!Opens, Answers
<1> QED BY <1>2, RingAfter

LEMMA RingStays ==
    ASSUME RingPlain, NEW q, Keeps(Ring!Here, q), Ring!Becomes(q), UNCHANGED <<seat, ran, torn>>
    PROVE  RingPlain'
<1>1. ring' = q.r
    BY BecomesFields DEF Keeps, Chained
<1>2. RingCount'
    BY <1>1, HereFields DEF RingPlain, RingCount, Keeps
<1> QED BY <1>2, RingAfter DEF Keeps, Answers

(* The chosen command is counted once, and nothing can choose another      *)
(* before the ring is opened again (logout_execute).                       *)
LEMMA RingRuns ==
    ASSUME RingPlain, ring.ready, Ring!Handled({Ring!Execute(Ring!Here)}), Ring!Runs,
           UNCHANGED <<seat, torn>>
    PROVE  RingPlain'
<1> DEFINE d == Ring!Execute(Ring!Here)
<1>1. PICK q \in Ring!RequestFrame(d) : Ring!Becomes(q)
    BY DEF Ring!Handled
<1>2. /\ Chained(d) /\ Lit(d) /\ ~d.r.open /\ ~d.r.ready
      /\ d.r.clock = Committed(ring.clock)
    BY ExecuteHides, HereFields DEF RingPlain, Chained
<1> HIDE DEF d
<1>3. Quiet(d.r.clock)
    BY <1>2, ClockMoves DEF RingPlain, Quiet, ClockOK
<1>4. Keeps(d, q)
    BY <1>2, <1>3, RequestPaces
<1>5. ring' = q.r /\ ~q.r.open /\ ~q.r.ready
    BY <1>1, <1>2, <1>4, BecomesFields DEF Keeps, Chained
<1>6. RingCount'
    BY <1>5 DEF RingPlain, RingCount, Ring!Runs
<1>7. Answers(Ring!Here, q)
    BY <1>2, <1>4, <1>5 DEF Keeps, Answers
<1> QED BY <1>1, <1>4, <1>6, <1>7, RingAfter DEF Keeps

LEMMA RingToggles ==
    ASSUME RingPlain, Ring!Handled(Ring!Toggle(Ring!Here, FALSE)), Ring!Opens,
           UNCHANGED <<seat, torn>>
    PROVE  RingPlain'
<1>1. PICK d \in Ring!Toggle(Ring!Here, FALSE) :
          \E q \in Ring!RequestFrame(d) : Ring!Becomes(q)
    BY DEF Ring!Handled
<1>2. PICK q \in Ring!RequestFrame(d) : Ring!Becomes(q)
    BY <1>1
<1>3. Answers(Ring!Here, d)
    BY TogglePaces, HereFields DEF RingPlain
<1>4. Answers(Ring!Here, q) /\ Paced(q)
    BY <1>3, AnsweredIsPaced
<1> QED BY <1>2, <1>4, RingOpens

LEMMA RingTouched ==
    ASSUME RingPlain, NEW d, Touches(Ring!Here, d), Ring!Handled({d}),
           UNCHANGED <<seat, ran, torn>>
    PROVE  RingPlain'
<1>1. PICK q \in Ring!RequestFrame(d) : Ring!Becomes(q)
    BY DEF Ring!Handled
<1>2. Keeps(Ring!Here, q)
    BY TouchedIsPaced, HereFields DEF RingPlain
<1> QED BY <1>1, <1>2, RingStays

LEMMA RingInitially == Ring!Init => RingInv
<1> SUFFICES ASSUME Ring!Init PROVE RingPlain
    BY RingInvPlain
<1> USE DEF Ring!Init
<1>1. Ring!IdleClock = IdleClock /\ IdleClock \in Clock /\ Ring!Clock = Clock
    BY ClocksAgree DEF IdleClock, Clock, Callbacks
<1>2. ring \in Ring!Ring
    BY <1>1, ButtonsFacts DEF Ring!Ring
<1>3. tween \in [Ring!Owners -> Ring!Ends] /\ tween = Ring!Cancelled
    BY DEF Ring!Cancelled, Ring!Ends
<1>4. /\ glow \in [Ring!Buttons -> [lit : BOOLEAN, moving : BOOLEAN]]
      /\ \A i \in Ring!Buttons : ~glow[i].lit
    BY DEF Ring!Dark
<1>5. /\ ~ring.open /\ ~ring.keyboard /\ ~ring.ready /\ ring.hovered = Ring!NoButton
      /\ ring.clock = IdleClock
    BY <1>1
<1>6. Chained(Ring!Here)
    BY <1>2, <1>3, <1>4, <1>5, HereTyped, HereFields DEF Chained, OneLink
<1>7. Lit(Ring!Here) /\ Paced(Ring!Here)
    BY <1>4, <1>5, HereFields DEF Lit, Paced
<1>8. Quiet(IdleClock)
    BY DEF Quiet, ClockOK, IdleClock, Clock, Callbacks
<1>9. RingCount
    <2>1. ran = 0 /\ torn \in BOOLEAN /\ seat \in [focus : BOOLEAN, region : BOOLEAN]
        OBVIOUS
    <2> QED BY ONLY <2>1 DEF RingCount
<1>10. Quiet(ring.clock)
    BY ONLY <1>5, <1>8
<1> QED BY ONLY <1>6, <1>7, <1>9, <1>10 DEF RingPlain

(* Every step of the logout ring keeps the invariant.                      *)
LEMMA RingStep == RingInv /\ Ring!Next => RingInv'
<1> SUFFICES ASSUME RingPlain, Ring!Next PROVE RingPlain'
    BY RingInvPlain, PTL
<1> DEFINE s == Ring!Here
<1>1. Chained(s) /\ Quiet(s.r.clock) /\ Paced(s) /\ s.r = ring
    BY HereFields DEF RingPlain
<1>2. CASE \E own \in BOOLEAN : Ring!Command(own)
    <2>1. PICK own \in BOOLEAN : Ring!Command(own)
        BY <1>2
    <2> DEFINE m == [Ring!Here EXCEPT !.r.surface = TRUE, !.r.clock = Ring!IdleClock,
                                      !.r.keyboard = FALSE]
    <2>2. Ring!Opens /\ UNCHANGED <<seat, torn>>
        BY <2>1 DEF Ring!Command
    <2>3. \/ \E q \in Ring!Toggle(s, own) : Ring!Becomes(q)
          \/ ~ring.open /\ \E q \in Ring!Toggle(m, own) : Ring!Becomes(q)
        BY <2>1 DEF Ring!Command
    <2>4. CASE \E q \in Ring!Toggle(s, own) : Ring!Becomes(q)
        <3>1. PICK q \in Ring!Toggle(s, own) : Ring!Becomes(q)
            BY <2>4
        <3>2. Answers(s, q) /\ Paced(q)
            BY <1>1, TogglePaces
        <3> QED BY <2>2, <3>1, <3>2, RingOpens
    <2>5. CASE ~ring.open /\ \E q \in Ring!Toggle(m, own) : Ring!Becomes(q)
        <3>1. PICK q \in Ring!Toggle(m, own) : Ring!Becomes(q)
            BY <2>5
        <3>2. Ring!IdleClock = IdleClock /\ IdleClock \in Ring!Clock
            BY ClocksAgree DEF IdleClock, Clock, Callbacks
        <3>3. /\ m \in RingState /\ m.t = s.t /\ m.g = s.g /\ m.r.open = s.r.open
              /\ m.r.ready = s.r.ready /\ ~m.r.keyboard /\ m.r.clock = IdleClock
              /\ m.r.selected = s.r.selected /\ m.r.hovered = s.r.hovered
            BY <1>1, <3>2 DEF Chained, RingState, Ring!Ring
        <3> HIDE DEF m
        <3>4. Chained(m) /\ Quiet(m.r.clock)
            <4>1. OneLink(m)
                BY <1>1, <2>5, <3>3 DEF Chained, OneLink
            <4>2. Quiet(IdleClock)
                BY DEF Quiet, ClockOK, IdleClock, Clock, Callbacks
            <4> QED BY <3>3, <4>1, <4>2 DEF Chained
        <3>5. Answers(m, q) /\ Paced(q)
            BY <3>4, TogglePaces
        <3>6. Lit(s) => Lit(m)
            BY <3>3 DEF Lit
        <3>7. Answers(s, q)
            BY <3>3, <3>5, <3>6 DEF Answers
        <3> QED BY <2>2, <3>1, <3>5, <3>7, RingOpens
    <2> QED BY <2>3, <2>4, <2>5
<1>3. CASE Ring!Key
    <2>1. UNCHANGED <<seat, torn>>
        BY <1>3 DEF Ring!Key
    <2>2. CASE ~ring.ready
        <3>1. Ring!Handled({s}) /\ UNCHANGED ran
            BY <1>3, <2>2 DEF Ring!Key
        <3>2. Touches(s, s)
            BY <1>1 DEF Touches
        <3> QED BY <2>1, <3>1, <3>2, RingTouched
    <2>3. CASE ring.ready
        <3>1. \/ \E i \in Ring!Buttons : Ring!Handled({Ring!Select(s, i)}) /\ UNCHANGED ran
              \/ Ring!Handled({Ring!Execute(s)}) /\ Ring!Runs
              \/ Ring!Handled(Ring!Toggle(s, FALSE)) /\ Ring!Opens
            BY <1>3, <2>3 DEF Ring!Key
        <3>2. ASSUME NEW i \in Ring!Buttons, Ring!Handled({Ring!Select(s, i)}), UNCHANGED ran
              PROVE  RingPlain'
            <4>1. Touches(s, Ring!Select(s, i))
                BY <1>1, <2>3, SelectTouches
            <4> QED BY <2>1, <3>2, <4>1, RingTouched
        <3>3. CASE Ring!Handled({Ring!Execute(s)}) /\ Ring!Runs
            BY <2>1, <2>3, <3>3, RingRuns
        <3>4. CASE Ring!Handled(Ring!Toggle(s, FALSE)) /\ Ring!Opens
            BY <2>1, <3>4, RingToggles
        <3> QED BY <3>1, <3>2, <3>3, <3>4
    <2> QED BY <2>2, <2>3
<1>4. CASE Ring!Click
    <2>1. PICK i \in Ring!Buttons \cup {Ring!NoButton} :
              /\ Ring!Handled(Ring!HandleClick(s, i))
              /\ IF i # Ring!NoButton /\ ring.ready THEN Ring!Runs ELSE Ring!Opens
        BY <1>4 DEF Ring!Click
    <2>2. UNCHANGED <<seat, torn>>
        BY <1>4 DEF Ring!Click
    <2>3. CASE i = Ring!NoButton
        <3>1. Ring!Handled(Ring!Toggle(s, FALSE)) /\ Ring!Opens
            BY <2>1, <2>3 DEF Ring!HandleClick
        <3> QED BY <2>2, <3>1, RingToggles
    <2>4. CASE i # Ring!NoButton /\ ring.ready
        <3>1. Ring!Handled({Ring!Execute(s)}) /\ Ring!Runs
            BY <1>1, <2>1, <2>4 DEF Ring!HandleClick
        <3> QED BY <2>2, <2>4, <3>1, RingRuns
    <2>5. CASE i # Ring!NoButton /\ ~ring.ready
        <3>1. Ring!Handled({s}) /\ Ring!Opens
            BY <1>1, <2>1, <2>5 DEF Ring!HandleClick
        <3>2. PICK q \in Ring!RequestFrame(s) : Ring!Becomes(q)
            BY <3>1 DEF Ring!Handled
        <3>3. Keeps(s, q)
            BY <1>1, RequestPaces
        <3> QED BY <2>2, <3>1, <3>2, <3>3, RingOpens DEF Keeps, Answers
    <2> QED BY <2>3, <2>4, <2>5
<1>5. CASE Ring!PointerMove
    <2>1. UNCHANGED <<seat, ran, torn>>
        BY <1>5 DEF Ring!PointerMove
    <2>2. \/ \E i \in Ring!Buttons \cup {Ring!NoButton} : Ring!Handled({Ring!HandleHover(s, i)})
          \/ Ring!Handled({Ring!ClearHover(s)})
        BY <1>5 DEF Ring!PointerMove
    <2>3. ASSUME NEW i \in Ring!Buttons \cup {Ring!NoButton}, Ring!Handled({Ring!HandleHover(s, i)})
          PROVE  RingPlain'
        <3>1. Touches(s, Ring!HandleHover(s, i))
            BY <1>1, HoverTouches
        <3> QED BY <2>1, <2>3, <3>1, RingTouched
    <2>4. CASE Ring!Handled({Ring!ClearHover(s)})
        <3>1. Touches(s, Ring!ClearHover(s))
            BY <1>1, ClearTouches
        <3> QED BY <2>1, <2>4, <3>1, RingTouched
    <2> QED BY <2>2, <2>3, <2>4
<1>6. CASE Ring!LogoReady
    <2> DEFINE d == [Ring!Here EXCEPT !.r.logo = "playing"]
    <2>1. Ring!Handled({d}) /\ UNCHANGED <<seat, ran, torn>>
        BY <1>6 DEF Ring!LogoReady
    <2>2. /\ d \in RingState /\ d.t = s.t /\ d.g = s.g /\ d.r.open = s.r.open
          /\ d.r.ready = s.r.ready /\ d.r.keyboard = s.r.keyboard
          /\ d.r.surface = s.r.surface /\ d.r.clock = s.r.clock
          /\ d.r.selected = s.r.selected /\ d.r.hovered = s.r.hovered
        BY <1>1 DEF Chained, RingState, Ring!Ring
    <2> HIDE DEF d
    <2>3. Touches(s, d)
        <3>1. OneLink(d)
            BY <1>1, <2>2 DEF Chained, OneLink
        <3>2. Lit(s) => Lit(d)
            BY <2>2 DEF Lit
        <3> QED BY <2>2, <3>1, <3>2 DEF Touches, Chained
    <2> QED BY <2>1, <2>3, RingTouched
<1>7. CASE Ring!Frame
    <2>1. /\ ring.clock.callback = "committed" /\ UNCHANGED <<seat, ran, torn>>
          /\ \E q \in Ring!FrameDone(s) : Ring!Becomes(q)
        BY <1>7 DEF Ring!Frame
    <2>2. PICK q \in Ring!FrameDone(s) : Ring!Becomes(q)
        BY <2>1
    <2>3. Keeps(s, q)
        BY <1>1, <2>1, FramePaces
    <2> QED BY <2>1, <2>2, <2>3, RingStays
<1>8. CASE Ring!SeatFollows
    <2>1. /\ UNCHANGED <<ring, tween, glow, ran, torn>>
          /\ seat' = [focus |-> ring.keyboard, region |-> ring.open]
        BY <1>8 DEF Ring!SeatFollows
    <2>2. Ring!Here' = Ring!Here
        BY <2>1 DEF Ring!Here
    <2>3. seat' \in [focus : BOOLEAN, region : BOOLEAN]
        BY <1>1, <2>1 DEF Chained, RingState, Ring!Ring
    <2> QED BY <2>1, <2>2, <2>3 DEF RingPlain, RingCount
<1>9. CASE Ring!OutputRemoved
    <2> USE DEF Ring!OutputRemoved
    <2>1. Ring!IdleClock = IdleClock /\ IdleClock \in Ring!Clock /\ Quiet(IdleClock)
        BY ClocksAgree DEF Quiet, ClockOK, IdleClock, Clock, Callbacks
    <2>2. /\ ring' \in Ring!Ring /\ ~ring'.open /\ ~ring'.keyboard
          /\ ring'.ready = ring.ready /\ ring'.hovered = ring.hovered
          /\ ring'.selected = ring.selected /\ ring'.clock = IdleClock
        BY <1>1, <1>9, <2>1 DEF Chained, RingState, Ring!Ring
    <2>3. tween' = Ring!Cancelled /\ tween' \in [Ring!Owners -> Ring!Ends]
        BY <1>9 DEF Ring!Cancelled, Ring!Ends
    <2>4. /\ glow' \in [Ring!Buttons -> [lit : BOOLEAN, moving : BOOLEAN]]
          /\ \A i \in Ring!Buttons : glow'[i].lit <=> glow[i].lit
        <3>1. glow \in [Ring!Buttons -> [lit : BOOLEAN, moving : BOOLEAN]]
            BY <1>1, HereTyped DEF Chained
        <3>2. glow' = [i \in Ring!Buttons |-> [glow[i] EXCEPT !.moving = FALSE]]
            BY <1>9
        <3> QED BY ONLY <3>1, <3>2
    <2>5. Ring!Here'.r = ring' /\ Ring!Here'.t = tween' /\ Ring!Here'.g = glow'
        BY DEF Ring!Here
    <2>6. Ring!Here' \in RingState
        BY <2>2, <2>3, <2>4 DEF RingState, Ring!Here
    <2>7. Chained(Ring!Here') /\ Paced(Ring!Here')
        BY <2>2, <2>3, <2>5, <2>6 DEF Chained, OneLink, Paced
    <2>8. ~torn' => Lit(Ring!Here')
        <3> SUFFICES ASSUME ~torn' PROVE Lit(Ring!Here')
            OBVIOUS
        <3>1. Lit(s) /\ ~ring.open
            BY <1>9 DEF RingPlain
        <3>2. s.r = ring /\ s.g = glow
            BY HereFields
        <3> QED BY <2>2, <2>4, <2>5, <3>1, <3>2 DEF Lit
    <2>9. RingCount'
        <3>1. seat' = [focus |-> FALSE, region |-> FALSE] /\ UNCHANGED ran
              /\ torn' = (torn \/ ring.open)
            BY <1>9
        <3>2. torn' \in BOOLEAN
            BY <3>1
        <3> QED BY <2>2, <3>1, <3>2 DEF RingPlain, RingCount
    <2> QED BY <2>1, <2>2, <2>7, <2>8, <2>9 DEF RingPlain
<1> QED BY <1>2, <1>3, <1>4, <1>5, <1>6, <1>7, <1>8, <1>9 DEF Ring!Next

(* The phases follow each other, the buttons are lit as they say, and one  *)
(* opening runs one command.                                               *)
LEMMA RingIsRight == RingInv => Ring!ChainGoesOn /\ Ring!HighlightsTrue /\ Ring!OneCommand
<1> SUFFICES ASSUME RingPlain PROVE Ring!ChainGoesOn /\ Ring!HighlightsTrue /\ Ring!OneCommand
    BY RingInvPlain
<1>1. /\ ring.open \in BOOLEAN /\ ring.ready \in BOOLEAN /\ ring.keyboard \in BOOLEAN
      /\ ring.selected \in Ring!Buttons /\ ring.hovered \in Ring!Buttons \cup {Ring!NoButton}
    BY HereTyped DEF RingPlain, Chained, Ring!Ring
<1>2. Ring!ChainGoesOn
    <2>1. OneLink(Ring!Here) /\ Paced(Ring!Here)
        BY DEF RingPlain, Chained
    <2> QED BY <1>1, <2>1, HereFields DEF OneLink, Paced, Ring!ChainGoesOn
<1>3. Ring!OneCommand
    BY DEF RingPlain, RingCount, Ring!OneCommand
<1>4. Ring!HighlightsTrue
    <2> SUFFICES ASSUME ring.open, ~torn
                 PROVE  {i \in Ring!Buttons : glow[i].lit} =
                            IF ring.ready THEN {ring.selected, ring.hovered} \ {Ring!NoButton} ELSE {}
        BY DEF Ring!HighlightsTrue
    <2>1. \A i \in Ring!Buttons :
              glow[i].lit <=> ring.ready /\ (i = ring.selected \/ i = ring.hovered)
        BY HereFields DEF RingPlain, Lit
    <2> QED BY <1>1, <2>1, ButtonsFacts
<1> QED BY <1>2, <1>3, <1>4

-----------------------------------------------------------------------------
(* The settings panel: the proof.                                          *)
TabState == [c : Tabs!Config, s : Tabs!Panel, e : Tabs!Edit, a : Tabs!Config]

\* A panel between the parts of a handler: what RequestFrame relies on.
Posed(s) ==
    /\ s \in Tabs!Panel /\ ClockOK(s.clock)
    /\ ~s.enabled => ~s.open
    /\ ~s.open => s.fade = "none"
    /\ s.open /\ s.tabFade # "out" => s.tab = s.pending

\* What it makes sure of: nothing moves or is out of date without a frame.
Shown(s) ==
    /\ Posed(s) /\ Quiet(s.clock)
    /\ s.open => s.clock.mapped
    /\ s.open /\ (s.fade # "none" \/ s.tabFade # "none") => s.clock.redraw
    /\ s.open /\ ~s.clock.redraw => s.painted = s.tab

\* The panel q has come of s without a handler of the fields.
SameFields(s, q) == q.enabled = s.enabled /\ q.ime = s.ime

LEMMA TurnsArePosed ==
    ASSUME NEW s, Posed(s), NEW q \in Tabs!Ticks(s), NEW t \in Tabs!Turns(q)
    PROVE  Posed(t) /\ SameFields(s, t) /\ t.clock = s.clock /\ t.selected = s.selected
<1> USE DEF Tabs!Panel, Posed, SameFields
<1>1. Posed(q) /\ SameFields(s, q) /\ q.clock = s.clock /\ q.selected = s.selected
    <2>1. CASE q = s
        BY <2>1
    <2>2. CASE s.fade = "in" /\ q = [s EXCEPT !.open = TRUE, !.fade = "none"]
        BY <2>2
    <2>3. CASE s.fade = "out" /\ q = [s EXCEPT !.open = FALSE, !.fade = "none"]
        BY <2>3
    <2> QED BY <2>1, <2>2, <2>3 DEF Tabs!Ticks
<1> HIDE DEF Posed
<1>2. q \in Tabs!Panel
    BY <1>1 DEF Posed
<1>3. CASE t = q
    BY <1>1, <1>3
<1>4. CASE q.tabFade = "out" /\ t = [q EXCEPT !.tab = q.pending, !.tabFade = "in"]
    BY <1>1, <1>2, <1>4 DEF Posed
<1>5. CASE q.tabFade = "in" /\ t = [q EXCEPT !.tabFade = "none"]
    BY <1>1, <1>2, <1>5 DEF Posed
<1> QED BY <1>2, <1>3, <1>4, <1>5 DEF Tabs!Turns

(* A paint leaves the tab it painted, or a frame to come                   *)
(* (settings_paint).                                                       *)
LEMMA PaintIsShown ==
    ASSUME NEW s, Posed(s), s.clock.callback # "none", NEW q \in Tabs!Paint(s)
    PROVE  Shown(q) /\ SameFields(s, q) /\ q.clock.mapped
<1> DEFINE U(x) == [x EXCEPT !.painted = x.tab,
                             !.selected = IF @ \in plugged THEN @ ELSE Tabs!Default]
           C(x) == IF (x.fade # "none" \/ x.tabFade # "none") /\ x.open
                   THEN Tabs!Committed(Tabs!Deferred(x.clock)) ELSE Tabs!Committed(x.clock)
<1>1. PICK t \in UNION {Tabs!Turns(r) : r \in Tabs!Ticks(s)} :
         q = [U(t) EXCEPT !.clock = C(U(t))]
    BY DEF Tabs!Paint
<1> DEFINE u == U(t)
           c == C(u)
<1>2. /\ u = U(t) /\ c = C(u) /\ q = [u EXCEPT !.clock = c]
    BY <1>1
<1> HIDE DEF u, c
<1>3. Posed(t) /\ SameFields(s, t) /\ t.clock = s.clock /\ t.selected = s.selected
    <2>1. PICK r \in Tabs!Ticks(s) : t \in Tabs!Turns(r)
        OBVIOUS
    <2> QED BY <2>1, TurnsArePosed
<1>4. /\ u \in Tabs!Panel /\ u.painted = u.tab /\ u.clock = s.clock /\ SameFields(s, u)
      /\ Posed(u)
    BY <1>2, <1>3 DEF Posed, Tabs!Panel, Tabs!Scopes, SameFields
<1>5. /\ c \in Clock /\ Quiet(c) /\ c.mapped
      /\ (u.fade # "none" \/ u.tabFade # "none") /\ u.open => c.redraw
    <2>1. /\ ClockOK(u.clock) /\ u.clock \in Clock /\ u.clock.callback # "none"
          /\ u.clock.mapped
        BY <1>4 DEF Posed, ClockOK
    <2>2. /\ Quiet(Committed(u.clock)) /\ Committed(u.clock).mapped
          /\ ClockOK(Deferred(u.clock)) /\ Deferred(u.clock).redraw /\ Deferred(u.clock).mapped
        BY <2>1, ClockMoves
    <2>3. Quiet(Committed(Deferred(u.clock))) /\ Committed(Deferred(u.clock)).redraw
          /\ Committed(Deferred(u.clock)).mapped
        BY <2>2, ClockMoves DEF ClockOK
    <2>4. c = Committed(Deferred(u.clock)) \/
              /\ c = Committed(u.clock)
              /\ ~((u.fade # "none" \/ u.tabFade # "none") /\ u.open)
        BY <1>2, ClocksAgree
    <2> QED BY <2>2, <2>3, <2>4 DEF Quiet, ClockOK
<1>6. /\ q \in Tabs!Panel /\ q.clock = c /\ q.painted = u.painted /\ q.tab = u.tab
      /\ q.open = u.open /\ q.fade = u.fade /\ q.tabFade = u.tabFade
      /\ q.pending = u.pending /\ q.enabled = u.enabled /\ q.ime = u.ime
    <2>1. Tabs!Clock = Clock
        BY ClocksAgree
    <2> QED BY <1>2, <1>4, <1>5, <2>1 DEF Tabs!Panel
<1> QED BY <1>4, <1>5, <1>6 DEF Shown, Posed, SameFields, Quiet

(* Every handler ends here: whatever it left is painted, or will be        *)
(* (settings_request_frame).                                               *)
LEMMA RequestIsShown ==
    ASSUME NEW d, Posed(d), Quiet(d.clock), NEW q \in Tabs!RequestFrame(d)
    PROVE  /\ Shown(q) /\ SameFields(d, q)
           /\ d.clock.mapped => q.clock.mapped
           /\ d.clock.mapped \/ ~d.enabled => q.selected = d.selected
           /\ d.enabled /\ d.open /\ d.clock.callback = "none" => q.clock.mapped
<1> DEFINE first == [d EXCEPT !.clock = Tabs!FirstDraw(@)]
           later == [d EXCEPT !.clock = Tabs!Deferred(@)]
           soon == [d EXCEPT !.clock = Tabs!Scheduled(@)]
<1>1. d.clock \in Clock /\ Tabs!Clock = Clock
    BY ClocksAgree DEF Posed, ClockOK
<1>2. ASSUME NEW c \in Clock, ClockOK(c), c.callback # "none"
      PROVE  LET x == [d EXCEPT !.clock = c]
             IN  /\ Posed(x) /\ SameFields(d, x) /\ x.clock = c /\ x.selected = d.selected
                 /\ c.redraw /\ Quiet(c) => Shown(x)
    BY <1>1, <1>2 DEF Posed, Tabs!Panel, SameFields, Shown, ClockOK
<1>3. CASE ~d.enabled \/ ~d.open
    <2>1. q = d
        BY <1>3 DEF Tabs!RequestFrame
    <2> QED BY <1>3, <2>1 DEF Shown, SameFields, Posed
<1>4. CASE d.enabled /\ d.open /\ d.clock.callback # "none"
    <2>1. q = later
        BY <1>4 DEF Tabs!RequestFrame
    <2>2. /\ Deferred(d.clock) \in Clock /\ ClockOK(Deferred(d.clock))
          /\ Quiet(Deferred(d.clock)) /\ Deferred(d.clock).callback # "none"
          /\ Deferred(d.clock).redraw /\ (d.clock.mapped => Deferred(d.clock).mapped)
        BY <1>1, <1>4, ClockMoves DEF Posed, Quiet, ClockOK
    <2>3. later = [d EXCEPT !.clock = Deferred(d.clock)]
        BY ClocksAgree
    <2> HIDE DEF later
    <2> QED BY <1>2, <1>4, <2>1, <2>2, <2>3
<1>5. CASE d.enabled /\ d.open /\ d.clock.callback = "none" /\ d.clock.mapped
    <2>1. q = soon
        BY <1>5 DEF Tabs!RequestFrame
    <2>2. /\ Scheduled(d.clock) \in Clock /\ ClockOK(Scheduled(d.clock))
          /\ Quiet(Scheduled(d.clock)) /\ Scheduled(d.clock).callback # "none"
          /\ Scheduled(d.clock).redraw /\ Scheduled(d.clock).mapped
        BY <1>1, <1>5, ClockMoves DEF Posed, Quiet, ClockOK
    <2>3. soon = [d EXCEPT !.clock = Scheduled(d.clock)]
        BY ClocksAgree
    <2> QED BY <1>2, <2>1, <2>2, <2>3
<1>6. CASE d.enabled /\ d.open /\ d.clock.callback = "none" /\ ~d.clock.mapped
    <2>1. q \in Tabs!Paint(first)
        BY <1>6 DEF Tabs!RequestFrame
    <2>2. /\ FirstDraw(d.clock) \in Clock /\ ClockOK(FirstDraw(d.clock))
          /\ FirstDraw(d.clock).callback # "none"
        BY <1>1, <1>6, ClockMoves DEF Posed, ClockOK
    <2>3. first = [d EXCEPT !.clock = FirstDraw(d.clock)]
        BY ClocksAgree
    <2>4. Posed(first) /\ first.clock.callback # "none" /\ SameFields(d, first)
        BY <1>2, <2>2, <2>3
    <2> HIDE DEF first
    <2>5. Shown(q) /\ SameFields(first, q) /\ q.clock.mapped
        BY <2>1, <2>4, PaintIsShown
    <2> QED BY <1>6, <2>4, <2>5 DEF SameFields
<1> QED BY <1>3, <1>4, <1>5, <1>6

-----------------------------------------------------------------------------
\* A handler's work in hand: what is asked for is in the configuration, and
\* a focused field has the input method and the scope that is selected.
Edited(h, m) ==
    /\ h \in TabState /\ Posed(h.s) /\ Quiet(h.s.clock)
    /\ ~m => h.c = h.a
    /\ ~m /\ h.e.field = "timeout" => h.e.scope = h.s.selected
    /\ h.e.field # "none" => h.s.ime # "off" /\ (h.s.enabled => h.s.clock.mapped)

LEMMA TextsFacts ==
    /\ Tabs!First \in FieldTexts /\ Tabs!Unparsed \notin FieldTexts
    /\ Tabs!NoEdit \in Tabs!Edit /\ Tabs!NoEdit.field = "none"
    /\ Tabs!Default \notin NamedMonitors /\ Tabs!Scopes = NamedMonitors \cup {Tabs!Default}
<1>1. Tabs!First \in FieldTexts
    BY PanelsAssumption DEF Tabs!First
<1> QED BY <1>1, PanelsAssumption
        DEF Tabs!Unparsed, Tabs!NoEdit, Tabs!Edit, Tabs!Fields, Tabs!Scopes, Tabs!Default

(* The text of a field is parsed into the configuration                    *)
(* (settings_service_apply_field_text).                                    *)
LEMMA ApplyTyped ==
    ASSUME NEW c \in Tabs!Config, NEW field, NEW scope \in Tabs!Scopes,
           NEW text \in FieldTexts \cup {Tabs!Unparsed}
    PROVE  Tabs!Apply(c, field, scope, text) \in Tabs!Config
BY TextsFacts DEF Tabs!Apply, Tabs!Config

(* Committing a field moves its text to the configuration, at the scope it *)
(* was opened for (settings_commit_focused_field).                         *)
LEMMA CommitEdits ==
    ASSUME NEW m \in BOOLEAN, NEW h, Edited(h, m)
    PROVE  LET k == Tabs!CommitFocusedField(h)
           IN  /\ Edited(k, m) /\ k.e.field = "none"
               /\ k.s.selected = h.s.selected /\ k.s.enabled = h.s.enabled
               /\ k.s.open = h.s.open /\ k.s.tab = h.s.tab /\ k.s.clock = h.s.clock
<1> DEFINE c == Tabs!Apply(h.c, h.e.field, h.s.selected, h.e.text)
           a == Tabs!Apply(h.a, h.e.field, h.e.scope, h.e.text)
           p == [h.s EXCEPT !.ime = "off"]
           k == [h EXCEPT !.c = c, !.a = a, !.e = Tabs!NoEdit, !.s.ime = "off"]
<1>1. CASE h.e.field = "none"
    BY <1>1 DEF Tabs!CommitFocusedField
<1>2. CASE h.e.field # "none"
    <2>1. Tabs!CommitFocusedField(h) = k
        BY <1>2 DEF Tabs!CommitFocusedField
    <2>2. /\ h.e.field \in {"none", "dir", "timeout"} /\ h.e.text \in FieldTexts \cup {Tabs!Unparsed}
          /\ h.e.scope \in Tabs!Scopes /\ h.s.selected \in Tabs!Scopes
          /\ h.c \in Tabs!Config /\ h.a \in Tabs!Config
        BY DEF Edited, TabState, Tabs!Edit, Tabs!Panel, Tabs!Fields
    <2>3. c \in Tabs!Config /\ a \in Tabs!Config
        BY <2>2, ApplyTyped
    <2>4. ~m => c = a
        BY <1>2, <2>2 DEF Edited, Tabs!Apply
    <2>5. /\ Posed(p) /\ p.selected = h.s.selected /\ p.enabled = h.s.enabled
          /\ p.open = h.s.open /\ p.tab = h.s.tab /\ p.clock = h.s.clock
        BY DEF Edited, Posed, Tabs!Panel
    <2> HIDE DEF c, a
    <2>6. /\ k.c = c /\ k.a = a /\ k.e = Tabs!NoEdit /\ k.s = p /\ k \in TabState
        <3>1. p \in Tabs!Panel
            BY <2>5 DEF Posed
        <3> QED BY <2>3, <3>1, TextsFacts DEF Edited, TabState
    <2> HIDE DEF k, p
    <2> QED BY <2>1, <2>4, <2>5, <2>6, TextsFacts DEF Edited
<1> QED BY <1>1, <1>2

(* A click on a field of the configuration changes it for the selection.   *)
LEMMA WithTyped ==
    ASSUME NEW c \in Tabs!Config, NEW s \in Tabs!Scopes,
           NEW what \in {"animated", "manage", "override", "reset"},
           what = "override" => s # Tabs!Default
    PROVE  Tabs!With(c, s, what) \in Tabs!Config
<1>1. CASE what = "animated"
    BY <1>1 DEF Tabs!With, Tabs!Config
<1>2. CASE what = "manage"
    BY <1>2 DEF Tabs!With, Tabs!Config
<1>3. CASE what = "override"
    <2> DEFINE o == [c.override EXCEPT ![s] = ~@]
               t == [c.timeout EXCEPT ![s] = IF c.override[s] THEN @
                                             ELSE c.timeout[Tabs!Default]]
    <2>1. o \in [NamedMonitors -> BOOLEAN] /\ t \in [Tabs!Scopes -> FieldTexts]
        BY <1>3, TextsFacts DEF Tabs!Config
    <2>2. Tabs!With(c, s, what) = [c EXCEPT !.override = o, !.timeout = t]
        BY <1>3 DEF Tabs!With
    <2> HIDE DEF o, t
    <2> QED BY <2>1, <2>2 DEF Tabs!Config
<1>4. CASE what = "reset"
    <2> DEFINE t == [c.timeout EXCEPT ![s] = c.timeout[Tabs!Default]]
    <2>1. t \in [Tabs!Scopes -> FieldTexts]
        BY TextsFacts DEF Tabs!Config
    <2>2. Tabs!With(c, s, what) = [c EXCEPT !.timeout = t]
        BY <1>4 DEF Tabs!With
    <2> HIDE DEF t
    <2> QED BY <2>1, <2>2 DEF Tabs!Config
<1> QED BY <1>1, <1>2, <1>3, <1>4

LEMMA ChangeEdits ==
    ASSUME NEW m \in BOOLEAN, NEW h, Edited(h, m),
           NEW what \in {"animated", "manage", "override", "reset"},
           what = "override" => h.s.selected # Tabs!Default
    PROVE  Edited(Tabs!Change(h, what), m)
<1> DEFINE k == Tabs!CommitFocusedField(h)
           c == Tabs!With(k.c, h.s.selected, what)
           a == Tabs!With(k.a, h.s.selected, what)
           q == [k EXCEPT !.c = c, !.a = a]
<1>1. Edited(k, m) /\ k.e.field = "none" /\ k.s.selected = h.s.selected
    BY CommitEdits
<1>2. Tabs!Change(h, what) = q
    BY DEF Tabs!Change
<1> HIDE DEF k
<1>3. h.s.selected \in Tabs!Scopes
    BY DEF Edited, TabState, Tabs!Panel
<1>4. c \in Tabs!Config /\ a \in Tabs!Config /\ (~m => c = a)
    BY <1>1, <1>3, WithTyped DEF Edited, TabState
<1> HIDE DEF c, a
<1>5. q.c = c /\ q.a = a /\ q.e = k.e /\ q.s = k.s /\ q \in TabState
    BY <1>1, <1>4 DEF Edited, TabState
<1> HIDE DEF q
<1> QED BY <1>1, <1>2, <1>4, <1>5 DEF Edited

LEMMA OverlayPosed ==
    ASSUME NEW s, Posed(s), s.enabled,
           s.tab = s.pending \/ s.open
    PROVE  LET q == Tabs!OverlayToggle(s)
           IN  /\ Posed(q) /\ q.clock = s.clock /\ SameFields(s, q)
               /\ q.selected = s.selected
BY DEF Posed, Tabs!Panel, Tabs!OverlayToggle, SameFields

\* Another panel under the same configuration and field.
LEMMA PanelEdited ==
    ASSUME NEW m \in BOOLEAN, NEW h, Edited(h, m), NEW q, Posed(q), q.clock = h.s.clock,
           SameFields(h.s, q), ~m /\ h.e.field = "timeout" => q.selected = h.s.selected
    PROVE  LET k == [h EXCEPT !.s = q] IN Edited(k, m) /\ k.s = q /\ k.e = h.e
<1> DEFINE k == [h EXCEPT !.s = q]
<1>1. k \in TabState /\ k.c = h.c /\ k.a = h.a /\ k.e = h.e /\ k.s = q
    BY DEF Edited, Posed, TabState
<1> HIDE DEF k
<1>2. Edited(k, m)
    BY <1>1 DEF Edited, SameFields
<1> QED BY <1>1, <1>2 DEF k

LEMMA ToggleEdits ==
    ASSUME NEW m \in BOOLEAN, NEW h, Edited(h, m)
    PROVE  Edited(Tabs!Toggle(h), m)
<1>1. CASE ~h.s.enabled
    BY <1>1 DEF Tabs!Toggle
<1>2. CASE h.s.enabled /\ h.s.open
    <2> DEFINE k == Tabs!CommitFocusedField(h)
    <2>1. Edited(k, m) /\ k.s.enabled /\ k.s.open
        BY <1>2, CommitEdits
    <2>2. Tabs!Toggle(h) = [k EXCEPT !.s = Tabs!OverlayToggle(k.s)]
        BY <1>2 DEF Tabs!Toggle
    <2> HIDE DEF k
    <2>3. Posed(k.s)
        BY <2>1 DEF Edited
    <2> DEFINE q == Tabs!OverlayToggle(k.s)
    <2>4. Posed(q) /\ q.clock = k.s.clock /\ SameFields(k.s, q) /\ q.selected = k.s.selected
        BY <2>1, <2>3, OverlayPosed
    <2> HIDE DEF q
    <2>5. Edited([k EXCEPT !.s = q], m)
        BY <2>1, <2>4, PanelEdited
    <2> QED BY <2>2, <2>5 DEF q
<1>3. CASE h.s.enabled /\ ~h.s.open
    <2> DEFINE d == [h.s EXCEPT !.tab = "wallpaper", !.pending = "wallpaper", !.tabFade = "none"]
               q == Tabs!OverlayToggle(d)
    <2>1. Tabs!Toggle(h) = [h EXCEPT !.s = q]
        BY <1>3 DEF Tabs!Toggle
    <2>2. /\ Posed(d) /\ d.clock = h.s.clock /\ SameFields(h.s, d) /\ d.tab = d.pending
          /\ d.selected = h.s.selected /\ d.enabled
        BY <1>3 DEF Edited, Posed, Tabs!Panel, Tabs!Tabs, SameFields
    <2> HIDE DEF d
    <2>3. Posed(q) /\ q.clock = d.clock /\ SameFields(d, q) /\ q.selected = d.selected
        BY <2>2, OverlayPosed
    <2> HIDE DEF q
    <2>4. SameFields(h.s, q)
        BY <2>2, <2>3 DEF SameFields
    <2> QED BY <2>1, <2>2, <2>3, <2>4, PanelEdited
<1> QED BY <1>1, <1>2, <1>3

LEMMA FocusEdits ==
    ASSUME NEW m \in BOOLEAN, NEW h, Edited(h, m), NEW id \in {"dir", "timeout"},
           h.s.enabled, h.s.clock.mapped
    PROVE  Edited(Tabs!FocusField(h, id), m)
<1>1. CASE h.e.field = id
    BY <1>1 DEF Tabs!FocusField
<1>2. CASE h.e.field # id
    <2> DEFINE k == Tabs!CommitFocusedField(h)
               e == [field |-> id, scope |-> h.s.selected,
                     text |-> IF id = "dir" THEN k.c.dir ELSE k.c.timeout[h.s.selected]]
               p == [k.s EXCEPT !.ime = "on"]
               q == [k EXCEPT !.e = e, !.s.ime = "on"]
    <2>1. /\ Edited(k, m) /\ k.s.selected = h.s.selected /\ k.s.enabled = h.s.enabled
          /\ k.s.clock = h.s.clock
        BY CommitEdits
    <2>2. Tabs!FocusField(h, id) = q
        BY <1>2 DEF Tabs!FocusField
    <2> HIDE DEF k
    <2>3. k.c \in Tabs!Config /\ h.s.selected \in Tabs!Scopes
        BY <2>1 DEF Edited, TabState, Tabs!Panel
    <2>4. e \in Tabs!Edit /\ e.field = id /\ e.scope = h.s.selected
        BY <2>3 DEF Tabs!Config, Tabs!Edit, Tabs!Fields
    <2>5. Posed(p) /\ p.selected = k.s.selected /\ p.enabled = k.s.enabled
          /\ p.ime = "on"
          /\ p.clock = k.s.clock
        BY <2>1 DEF Edited, Posed, Tabs!Panel
    <2> HIDE DEF e
    <2>6. q \in TabState /\ q.c = k.c /\ q.a = k.a /\ q.e = e /\ q.s = p
        BY <2>1, <2>4, <2>5 DEF Edited, Posed, TabState
    <2> HIDE DEF p, q
    <2> QED BY <2>1, <2>2, <2>4, <2>5, <2>6 DEF Edited
<1> QED BY <1>1, <1>2

LEMMA SelectTabEdits ==
    ASSUME NEW m \in BOOLEAN, NEW h, Edited(h, m), NEW t \in Tabs!Tabs
    PROVE  Edited(Tabs!SelectTab(h, t), m)
<1> DEFINE k == Tabs!CommitFocusedField(h)
           p == [k.s EXCEPT !.pending = t, !.tabFade = "out"]
           q == [k EXCEPT !.s.pending = t, !.s.tabFade = "out"]
<1>1. Edited(k, m)
    BY CommitEdits
<1>2. Tabs!SelectTab(h, t) = IF t = k.s.tab THEN k ELSE q
    BY DEF Tabs!SelectTab
<1> HIDE DEF k
<1>3. /\ Posed(p) /\ p.clock = k.s.clock /\ SameFields(k.s, p) /\ p.selected = k.s.selected
    BY <1>1 DEF Edited, Posed, Tabs!Panel, SameFields
<1>4. q = [k EXCEPT !.s = p]
    BY <1>1 DEF Edited, TabState
<1> HIDE DEF p, q
<1>5. Edited(q, m)
    BY <1>1, <1>3, <1>4, PanelEdited
<1> QED BY <1>1, <1>2, <1>5

-----------------------------------------------------------------------------
\* The invariant by the work in hand, as Here has it.
TabsPlain ==
    /\ Edited(Tabs!Here, moved) /\ Shown(st)
    /\ plugged \subseteq NamedMonitors /\ moved \in BOOLEAN

LEMMA TabsHere ==
    /\ Tabs!Here.c = cf /\ Tabs!Here.s = st /\ Tabs!Here.e = edit /\ Tabs!Here.a = asked
    /\ Tabs!Here \in TabState <=> /\ cf \in Tabs!Config /\ st \in Tabs!Panel
                                /\ edit \in Tabs!Edit /\ asked \in Tabs!Config
BY DEF Tabs!Here, TabState

LEMMA TabsInvPlain == TabsInv <=> TabsPlain
<1>1. Tabs!ClockOK(st.clock) <=> ClockOK(st.clock)
    BY ClocksAgree
<1> QED BY <1>1, TabsHere DEF TabsInv, TabsPlain, Tabs!TypeOK, Edited, Shown, Posed, Quiet

(* Every handler keeps it, whatever it made of the field and the panel.    *)
LEMMA TabsAfter ==
    ASSUME NEW d, moved' \in BOOLEAN, Edited(d, moved'), plugged' \subseteq NamedMonitors,
           Tabs!Becomes(d)
    PROVE  TabsPlain'
<1>1. /\ st' \in Tabs!RequestFrame(d.s) /\ cf' = d.c /\ edit' = d.e
      /\ asked' = IF moved' THEN d.c ELSE d.a
    BY DEF Tabs!Becomes
<1>2. /\ Shown(st') /\ SameFields(d.s, st')
      /\ d.s.clock.mapped => st'.clock.mapped
      /\ d.s.clock.mapped \/ ~d.s.enabled => st'.selected = d.s.selected
    <2>1. Posed(d.s) /\ Quiet(d.s.clock)
        BY DEF Edited
    <2> QED BY <1>1, <2>1, RequestIsShown
<1>3. /\ Tabs!Here'.c = cf' /\ Tabs!Here'.s = st' /\ Tabs!Here'.e = edit'
      /\ Tabs!Here'.a = asked' /\ Tabs!Here' \in TabState
    <2>1. /\ cf' \in Tabs!Config /\ st' \in Tabs!Panel /\ edit' \in Tabs!Edit
          /\ asked' \in Tabs!Config
        BY <1>1, <1>2 DEF Edited, TabState, Shown, Posed
    <2> QED BY <2>1 DEF Tabs!Here, TabState
<1>4. Posed(st') /\ Quiet(st'.clock)
    BY <1>2 DEF Shown
<1>5. ~moved' => cf' = asked'
    BY <1>1 DEF Edited
<1>6. ~moved' /\ edit'.field = "timeout" => edit'.scope = st'.selected
    BY <1>1, <1>2 DEF Edited
<1>7. edit'.field # "none" => st'.ime # "off" /\ (st'.enabled => st'.clock.mapped)
    BY <1>1, <1>2 DEF Edited, SameFields
<1>8. Edited(Tabs!Here, moved)'
    BY ONLY <1>3, <1>4, <1>5, <1>6, <1>7 DEF Edited
<1> QED BY <1>2, <1>8 DEF TabsPlain

LEMMA TabsHandled ==
    ASSUME TabsPlain, NEW d, Edited(d, moved), Tabs!Handled(d)
    PROVE  TabsPlain'
BY TabsAfter DEF TabsPlain, Tabs!Handled

(* A paint outside of the handlers of the fields notices a selection that   *)
(* moves (settings_paint).                                                 *)
LEMMA TabsRepainted ==
    ASSUME TabsPlain, Tabs!Repaints, Shown(st'),
           edit.field # "none" => st'.ime # "off" /\ (st'.enabled => st'.clock.mapped)
    PROVE  TabsPlain'
<1>1. /\ moved' = (moved \/ (edit.field = "timeout" /\ st'.selected # edit.scope))
      /\ asked' = IF moved' THEN cf ELSE asked
      /\ UNCHANGED <<cf, edit, plugged>>
    BY DEF Tabs!Repaints
<1>2. moved' \in BOOLEAN /\ plugged' \subseteq NamedMonitors
    BY <1>1 DEF TabsPlain
<1>3. /\ cf \in Tabs!Config /\ edit \in Tabs!Edit /\ asked \in Tabs!Config
      /\ ~moved => cf = asked
    BY TabsHere DEF TabsPlain, Edited
<1>4. /\ Tabs!Here'.c = cf' /\ Tabs!Here'.s = st' /\ Tabs!Here'.e = edit'
      /\ Tabs!Here'.a = asked' /\ Tabs!Here' \in TabState
    <2>1. cf' \in Tabs!Config /\ st' \in Tabs!Panel /\ edit' \in Tabs!Edit
          /\ asked' \in Tabs!Config
        BY <1>1, <1>3 DEF Shown, Posed
    <2> QED BY <2>1 DEF Tabs!Here, TabState
<1>5. ~moved' => cf' = asked'
    BY <1>1, <1>3
<1>6. ~moved' /\ edit'.field = "timeout" => edit'.scope = st'.selected
    BY <1>1
<1>7. edit'.field # "none" => st'.ime # "off" /\ (st'.enabled => st'.clock.mapped)
    BY <1>1
<1>8. Posed(st') /\ Quiet(st'.clock)
    BY DEF Shown
<1>9. Edited(Tabs!Here, moved)'
    BY ONLY <1>4, <1>5, <1>6, <1>7, <1>8 DEF Edited
<1> QED BY <1>2, <1>9 DEF TabsPlain

(* The panel moves to the active output and opens there, or stays away     *)
(* (settings_retarget).                                                    *)
LEMMA TabsRetarget ==
    ASSUME TabsPlain, Tabs!Retarget
    PROVE  TabsPlain'
<1> DEFINE h == Tabs!Here
<1>1. /\ Posed(st) /\ h.s = st /\ h.e = edit /\ h \in TabState
      /\ edit.field # "none" => st.ime # "off"
    BY TabsHere DEF TabsPlain, Edited, Shown
<1>2. /\ IdleClock \in Clock /\ Tabs!Clock = Clock /\ Tabs!IdleClock = IdleClock
      /\ Quiet(IdleClock) /\ ClockOK(IdleClock) /\ IdleClock.callback = "none"
      /\ ~IdleClock.mapped
    BY ClocksAgree DEF IdleClock, Clock, Callbacks, Quiet, ClockOK
<1>3. PICK ready \in BOOLEAN :
         st' \in Tabs!RequestFrame(Tabs!Toggle([h EXCEPT !.s = Tabs!Retargeted(@, ready)]).s)
    BY DEF Tabs!Retarget
<1>4. st.enabled /\ ~st.open /\ Tabs!Repaints
    BY DEF Tabs!Retarget
<1> DEFINE ime == IF st.ime = "on" THEN "stale" ELSE st.ime
           d == [st EXCEPT !.enabled = ready, !.clock = IdleClock, !.ime = ime]
           k == [h EXCEPT !.s = d]
           e == [d EXCEPT !.tab = "wallpaper", !.pending = "wallpaper", !.tabFade = "none"]
           t == Tabs!OverlayToggle(e)
<1>5. ime \in {"off", "on", "stale"} /\ (st.ime # "off" => ime # "off")
    BY <1>1 DEF Posed, Tabs!Panel
<1>6. k = [h EXCEPT !.s = Tabs!Retargeted(@, ready)]
    BY <1>1, <1>2 DEF Tabs!Retargeted
<1> HIDE DEF ime
<1>7. /\ d \in Tabs!Panel /\ Posed(d) /\ d.clock = IdleClock /\ d.enabled = ready /\ d.ime = ime
      /\ ~d.open
    BY <1>1, <1>2, <1>4, <1>5 DEF Posed, Tabs!Panel
<1> HIDE DEF d
<1>8. k.s = d /\ Tabs!Toggle(k).s = IF ready THEN t ELSE d
    BY <1>1, <1>7 DEF TabState, Tabs!Toggle
<1> HIDE DEF k, h
<1>9. CASE ready
    <2>1. /\ Posed(e) /\ e.clock = IdleClock /\ e.ime = ime /\ e.enabled /\ e.tab = e.pending
          /\ ~e.open
        BY <1>7, <1>9 DEF Posed, Tabs!Panel, Tabs!Tabs
    <2> HIDE DEF e
    <2>2. Posed(t) /\ t.clock = IdleClock /\ t.ime = ime /\ t.enabled
        BY <2>1, OverlayPosed DEF SameFields
    <2>3. t.open
        BY <2>1 DEF Tabs!OverlayToggle, Posed, Tabs!Panel
    <2> HIDE DEF t
    <2>4. st' \in Tabs!RequestFrame(t)
        BY <1>3, <1>6, <1>8, <1>9
    <2>5. Shown(st') /\ SameFields(t, st') /\ st'.clock.mapped
        BY <1>2, <2>2, <2>3, <2>4, RequestIsShown
    <2> QED BY <1>1, <1>4, <1>5, <2>2, <2>5, TabsRepainted DEF SameFields
<1>10. CASE ~ready
    <2>1. st' \in Tabs!RequestFrame(d)
        BY <1>3, <1>6, <1>8, <1>10
    <2>2. Shown(st') /\ SameFields(d, st')
        BY <1>2, <1>7, <2>1, RequestIsShown
    <2> QED BY <1>1, <1>4, <1>5, <1>7, <1>10, <2>2, TabsRepainted DEF SameFields
<1> QED BY <1>9, <1>10

LEMMA TabsInitially == Tabs!Init => TabsInv
<1> SUFFICES ASSUME Tabs!Init PROVE TabsPlain
    BY TabsInvPlain
<1> USE DEF Tabs!Init
<1>1. Tabs!IdleClock = IdleClock /\ Tabs!Clock = Clock /\ IdleClock \in Clock
      /\ Quiet(IdleClock) /\ ClockOK(IdleClock)
    BY ClocksAgree DEF IdleClock, Clock, Callbacks, Quiet, ClockOK
<1>2. cf \in Tabs!Config /\ asked = cf
    BY TextsFacts DEF Tabs!Config
<1>3. /\ st \in Tabs!Panel /\ ~st.open /\ st.enabled /\ st.fade = "none"
      /\ st.clock = IdleClock
    BY <1>1 DEF Tabs!Panel, Tabs!Tabs, Tabs!Scopes
<1>4. Shown(st)
    BY <1>1, <1>3 DEF Shown, Posed
<1>5. edit \in Tabs!Edit /\ edit.field = "none"
    BY TextsFacts
<1>6. moved \in BOOLEAN /\ plugged \subseteq NamedMonitors
    OBVIOUS
<1>7. Edited(Tabs!Here, moved)
    BY ONLY <1>2, <1>3, <1>4, <1>5, TabsHere DEF Edited, Shown
<1> QED BY ONLY <1>4, <1>6, <1>7 DEF TabsPlain

LEMMA TabsStep == TabsInv /\ Tabs!Next => TabsInv'
<1> SUFFICES ASSUME TabsPlain, Tabs!Next PROVE TabsPlain'
    BY TabsInvPlain, PTL
<1> DEFINE h == Tabs!Here
<1>1. /\ Edited(h, moved) /\ h.c = cf /\ h.s = st /\ h.e = edit /\ h.a = asked
      /\ moved \in BOOLEAN /\ h \in TabState
    BY TabsHere DEF TabsPlain, Edited
<1>2. Shown(st) /\ Posed(st) /\ Quiet(st.clock)
    BY DEF TabsPlain, Shown
<1>3. st.open => st.enabled /\ st.clock.mapped
    BY <1>2 DEF Shown, Posed
<1>4. edit.field # "none" => st.ime # "off" /\ (st.enabled => st.clock.mapped)
    BY <1>1 DEF Edited
<1>5. st.selected \in Tabs!Scopes
    BY <1>2 DEF Posed, Tabs!Panel
<1>6. ASSUME Tabs!Command PROVE TabsPlain'
    <2>1. Edited(Tabs!Toggle(h), moved)
        BY <1>1, ToggleEdits
    <2>2. Tabs!Handled(Tabs!Toggle(h)) \/ Tabs!Retarget
        BY <1>6 DEF Tabs!Command
    <2> QED BY <2>1, <2>2, TabsHandled, TabsRetarget
<1>7. ASSUME NEW t \in Tabs!Tabs, Tabs!ClickTab(t) PROVE TabsPlain'
    BY <1>1, <1>7, SelectTabEdits, TabsHandled DEF Tabs!ClickTab
<1>8. ASSUME Tabs!ClickWallpaperTab PROVE TabsPlain'
    <2>1. CASE Tabs!Handled(Tabs!Change(h, "animated"))
        <3>1. Edited(Tabs!Change(h, "animated"), moved)
            BY <1>1, ChangeEdits
        <3> QED BY <2>1, <3>1, TabsHandled
    <2>2. CASE Tabs!Handled(Tabs!FocusField(h, "dir"))
        <3>1. Edited(Tabs!FocusField(h, "dir"), moved)
            BY <1>1, <1>3, <1>8, FocusEdits DEF Tabs!ClickWallpaperTab, Tabs!Drawn
        <3> QED BY <2>2, <3>1, TabsHandled
    <2> QED BY <1>8, <2>1, <2>2 DEF Tabs!ClickWallpaperTab
<1>9. ASSUME Tabs!ClickIdleTab PROVE TabsPlain'
    <2>1. CASE Tabs!Handled(Tabs!Change(h, "manage"))
        <3>1. Edited(Tabs!Change(h, "manage"), moved)
            BY <1>1, ChangeEdits
        <3> QED BY <2>1, <3>1, TabsHandled
    <2>2. CASE st.selected # Tabs!Default /\ Tabs!Handled(Tabs!Change(h, "override"))
        <3>1. Edited(Tabs!Change(h, "override"), moved)
            BY <1>1, <2>2, ChangeEdits
        <3> QED BY <2>2, <3>1, TabsHandled
    <2>3. CASE Tabs!Handled(Tabs!Change(h, "reset"))
        <3>1. Edited(Tabs!Change(h, "reset"), moved)
            BY <1>1, ChangeEdits
        <3> QED BY <2>3, <3>1, TabsHandled
    <2>4. CASE Tabs!Handled(Tabs!FocusField(h, "timeout"))
        <3>1. Edited(Tabs!FocusField(h, "timeout"), moved)
            BY <1>1, <1>3, <1>9, FocusEdits DEF Tabs!ClickIdleTab, Tabs!Drawn
        <3> QED BY <2>4, <3>1, TabsHandled
    <2> QED BY <1>9, <2>1, <2>2, <2>3, <2>4 DEF Tabs!ClickIdleTab
<1>10. ASSUME NEW s \in Tabs!Scopes, Tabs!SelectMonitor(s) PROVE TabsPlain'
    <2> DEFINE p == [st EXCEPT !.selected = s]
               d == [h EXCEPT !.s.selected = s]
    <2>1. moved' = (moved \/ (edit.field = "timeout" /\ s # edit.scope))
        BY <1>10 DEF Tabs!SelectMonitor
    <2>2. moved' \in BOOLEAN
        BY <2>1
    <2>3. /\ Posed(p) /\ p.clock = st.clock /\ SameFields(st, p) /\ p.selected = s
        BY <1>2 DEF Posed, Tabs!Panel, SameFields
    <2>4. d = [h EXCEPT !.s = p]
        BY <1>1 DEF TabState
    <2> HIDE DEF p
    <2>5. /\ d \in TabState /\ d.c = cf /\ d.a = asked /\ d.e = edit /\ d.s = p
        BY <1>1, <2>3, <2>4 DEF TabState, Posed
    <2> HIDE DEF d
    <2>6. Edited(d, moved')
        BY <1>1, <1>2, <1>4, <2>1, <2>3, <2>5 DEF Edited, SameFields
    <2>7. Tabs!Becomes(d) /\ plugged' \subseteq NamedMonitors
        BY <1>10 DEF Tabs!SelectMonitor, TabsPlain, d
    <2> QED BY <2>2, <2>6, <2>7, TabsAfter
<1>11. ASSUME Tabs!Key PROVE TabsPlain'
    <2>1. ASSUME edit.field # "none", NEW t \in FieldTexts \cup {Tabs!Unparsed},
                 Tabs!Handled([h EXCEPT !.e.text = t])
          PROVE  TabsPlain'
        <3> DEFINE e == [edit EXCEPT !.text = t]
                   d == [h EXCEPT !.e.text = t]
        <3>1. e \in Tabs!Edit /\ e.field = edit.field /\ e.scope = edit.scope
            BY <1>1 DEF TabState, Tabs!Edit
        <3>2. d = [h EXCEPT !.e = e]
            BY <1>1 DEF TabState
        <3> HIDE DEF e
        <3>3. d \in TabState /\ d.c = cf /\ d.a = asked /\ d.e = e /\ d.s = st
            BY <1>1, <3>1, <3>2 DEF TabState
        <3> HIDE DEF d
        <3>4. Edited(d, moved)
            BY <1>1, <3>1, <3>3 DEF Edited
        <3> QED BY <2>1, <3>4, TabsHandled DEF d
    <2>2. CASE Tabs!Handled(Tabs!CommitFocusedField(h))
        BY <1>1, <2>2, CommitEdits, TabsHandled
    <2>3. CASE Tabs!Handled([h EXCEPT !.e = Tabs!NoEdit])
        <3> DEFINE d == [h EXCEPT !.e = Tabs!NoEdit]
        <3>1. /\ d \in TabState /\ d.c = cf /\ d.a = asked /\ d.e = Tabs!NoEdit /\ d.s = st
            BY <1>1, TextsFacts DEF TabState
        <3> HIDE DEF d
        <3>2. Edited(d, moved)
            BY <1>1, <3>1, TextsFacts DEF Edited
        <3> QED BY <2>3, <3>2, TabsHandled DEF d
    <2>4. CASE Tabs!Handled(Tabs!Toggle(h))
        BY <1>1, <2>4, ToggleEdits, TabsHandled
    <2> QED BY <1>11, <2>1, <2>2, <2>3, <2>4 DEF Tabs!Key
<1>12. ASSUME Tabs!Frame PROVE TabsPlain'
    <2>3. Shown(st') /\ SameFields(st, st') /\ st'.clock.mapped
        <3>1. st.clock \in Clock /\ ClockOK(st.clock) /\ st.clock.callback = "committed"
              /\ st.clock.mapped /\ Tabs!Clock = Clock
            BY <1>2, <1>12, ClocksAgree DEF Tabs!Frame, Posed, ClockOK
        <3>2. CASE st.clock.redraw
            <4> DEFINE p == [st EXCEPT !.clock = DoneForDraw(st.clock)]
            <4>1. st' \in Tabs!Paint(p)
                BY <1>12, <3>2, ClocksAgree DEF Tabs!Frame
            <4>2. ClockOK(DoneForDraw(st.clock)) /\ DoneForDraw(st.clock) \in Clock
                  /\ DoneForDraw(st.clock).callback = "armed"
                BY <3>1, ClockMoves DEF ClockOK
            <4>3. Posed(p) /\ p.clock.callback = "armed" /\ SameFields(st, p)
                BY <1>2, <3>1, <4>2 DEF Posed, Tabs!Panel, SameFields
            <4> HIDE DEF p
            <4>4. Shown(st') /\ SameFields(p, st') /\ st'.clock.mapped
                BY <4>1, <4>3, PaintIsShown
            <4> QED BY <4>3, <4>4 DEF SameFields
        <3>3. CASE ~st.clock.redraw
            <4>1. st' = [st EXCEPT !.clock = DoneIdle(st.clock)]
                BY <1>12, <3>3, ClocksAgree DEF Tabs!Frame
            <4>2. Quiet(DoneIdle(st.clock)) /\ ~DoneIdle(st.clock).redraw
                  /\ DoneIdle(st.clock).mapped /\ DoneIdle(st.clock) \in Clock
                BY <3>1, <3>3, ClockMoves DEF Quiet, ClockOK
            <4> QED BY <1>2, <3>1, <3>3, <4>1, <4>2
                    DEF Shown, Posed, Tabs!Panel, SameFields, Quiet
        <3> QED BY <3>2, <3>3
    <2> QED BY <1>12, <1>4, <2>3, TabsRepainted DEF Tabs!Frame, SameFields
<1>13. ASSUME NEW m \in NamedMonitors, Tabs!Plug(m) \/ Tabs!Unplug(m) PROVE TabsPlain'
    <2>1. UNCHANGED <<cf, st, edit, asked, moved>> /\ plugged' \subseteq NamedMonitors
        BY <1>13 DEF Tabs!Plug, Tabs!Unplug, TabsPlain
    <2>2. Tabs!Here' = Tabs!Here
        BY <2>1 DEF Tabs!Here
    <2> QED BY <2>1, <2>2 DEF TabsPlain
<1>14. ASSUME Tabs!OutputRemoved PROVE TabsPlain'
    <2>1. /\ st' = [st EXCEPT !.enabled = FALSE, !.open = FALSE, !.fade = "none",
                              !.tabFade = "none", !.ime = "off", !.clock = IdleClock]
          /\ edit' = Tabs!NoEdit /\ UNCHANGED <<cf, asked, moved>>
        BY <1>14, ClocksAgree DEF Tabs!OutputRemoved
    <2>2. IdleClock \in Clock /\ Tabs!Clock = Clock /\ Quiet(IdleClock) /\ ClockOK(IdleClock)
        BY ClocksAgree DEF IdleClock, Clock, Callbacks, Quiet, ClockOK
    <2>3. Shown(st') /\ Posed(st') /\ Quiet(st'.clock)
        BY <1>2, <2>1, <2>2 DEF Shown, Posed, Tabs!Panel
    <2>4. /\ Tabs!Here'.c = cf' /\ Tabs!Here'.s = st' /\ Tabs!Here'.e = edit'
          /\ Tabs!Here'.a = asked' /\ Tabs!Here' \in TabState
        <3>1. cf' \in Tabs!Config /\ st' \in Tabs!Panel /\ edit' \in Tabs!Edit
              /\ asked' \in Tabs!Config
            BY <1>1, <2>1, <2>3, TextsFacts DEF TabState, Posed
        <3> QED BY <3>1 DEF Tabs!Here, TabState
    <2>5. (~moved' => cf' = asked') /\ edit'.field = "none"
        BY <1>1, <2>1, TextsFacts DEF Edited
    <2>6. Edited(Tabs!Here, moved)'
        BY ONLY <2>3, <2>4, <2>5 DEF Edited
    <2>7. plugged' \subseteq NamedMonitors
        BY <1>14 DEF Tabs!OutputRemoved, TabsPlain
    <2> QED BY <2>1, <2>3, <2>6, <2>7 DEF TabsPlain
<1> QED BY <1>6, <1>7, <1>8, <1>9, <1>10, <1>11, <1>12, <1>13, <1>14 DEF Tabs!Next

(* A tab that settles, and edits that land, follow.                        *)
LEMMA TabsAreRight == TabsInv => Tabs!TabSettles /\ Tabs!EditsLand
<1>1. TabsInv => st.clock \in Clock
    BY DEF TabsInv, Quiet, ClockOK
<1> QED BY <1>1
        DEF TabsInv, Quiet, ClockOK, Clock, Callbacks, Tabs!TabSettles, Tabs!EditsLand

-----------------------------------------------------------------------------
(* The list of the launcher: the proof.                                    *)
Openings == 0..MaxOpens
Row == [kind : Rows!Kinds, apps : Openings]
RowList == [surface : BOOLEAN, open : BOOLEAN, fade : {"none", "opening", "closing"},
            clock : Clock, screen : Rows!Screens, browse : BOOLEAN, sel : Nat,
            apps : Openings, results : Seq(Row), text : Rows!Texts, dirty : BOOLEAN,
            searching : BOOLEAN, destroying : BOOLEAN]

\* A list whose results may be shown, with strays and misclicks as given.
Live(l, s) ==
    /\ l \in RowList /\ ClockOK(l.clock)
    /\ l.open => l.surface
    /\ ~l.open => l.fade = "none"
    /\ ~s /\ (~l.open \/ l.fade = "closing") => ~l.dirty /\ ~l.searching
    /\ ~s /\ ~l.open => l.results = <<>> /\ l.sel = 0
    /\ l.open /\ ~s => \A i \in DOMAIN l.results : l.results[i].apps = l.apps

\* The selection is on a row, or something will put it right.
Selects(l, s, m) ==
    l.open => \/ l.dirty \/ l.searching \/ l.fade = "closing" \/ m \/ s
              \/ l.sel <= Len(Rows!Rows(l))

RowsFor(l, s, m) == Live(l, s) /\ Selects(l, s, m)

(* A list has its rows in order; a submenu has some.                       *)
LEMMA RowsCounted ==
    ASSUME NEW l \in RowList
    PROVE  /\ Rows!Rows(l) \in Seq(Rows!Kinds) /\ Len(Rows!Rows(l)) \in Nat
           /\ DOMAIN Rows!Rows(l) = 1..Len(Rows!Rows(l))
           /\ l.screen = "Search" => Len(Rows!Rows(l)) = Len(l.results)
           /\ l.screen # "Search" => Len(Rows!Rows(l)) >= 2
           /\ Rows!First(Rows!Rows(l)) \in {0, 1}
           /\ Rows!First(Rows!Rows(l)) <= Len(Rows!Rows(l))
<1> DEFINE r == Rows!Rows(l)
<1>1. ASSUME l.screen = "Search"
      PROVE  r \in Seq(Rows!Kinds) /\ Len(r) = Len(l.results)
    <2>1. l.results \in Seq(Row)
        BY DEF RowList
    <2>2. /\ Len(l.results) \in Nat /\ DOMAIN l.results = 1..Len(l.results)
          /\ \A i \in 1..Len(l.results) : l.results[i].kind \in Rows!Kinds
        <3>1. /\ Len(l.results) \in Nat /\ DOMAIN l.results = 1..Len(l.results)
              /\ \A i \in 1..Len(l.results) : l.results[i] \in Row
            BY <2>1
        <3> QED BY <3>1 DEF Row
    <2>3. r = [i \in 1..Len(l.results) |-> l.results[i].kind]
        BY <1>1, <2>2 DEF Rows!Rows
    <2> HIDE DEF r
    <2>4. r \in [1..Len(l.results) -> Rows!Kinds]
        BY <2>2, <2>3
    <2> QED BY <2>2, <2>4
<1>2. ASSUME l.screen # "Search"
      PROVE  r \in Seq(Rows!Kinds) /\ Len(r) >= 2
    <2>1. l.screen \in {"Browse", "DirActions", "FileActions"}
        BY <1>2 DEF RowList, Rows!Screens
    <2>2. r = Rows!Items(l.screen)
        BY <1>2 DEF Rows!Rows
    <2>3. CASE l.screen = "Browse"
        <3>1. r = <<"options", "prev", "dir", "file">>
            BY <2>2, <2>3 DEF Rows!Items
        <3> HIDE DEF r
        <3> QED BY <3>1 DEF Rows!Kinds
    <2>4. CASE l.screen = "DirActions"
        <3>1. r = <<"run", "run", "run">>
            BY <2>2, <2>4 DEF Rows!Items
        <3> HIDE DEF r
        <3> QED BY <3>1 DEF Rows!Kinds
    <2>5. CASE l.screen = "FileActions"
        <3>1. r = <<"run", "containing">>
            BY <2>2, <2>5 DEF Rows!Items
        <3> HIDE DEF r
        <3> QED BY <3>1 DEF Rows!Kinds
    <2> QED BY <2>1, <2>3, <2>4, <2>5
<1>3. r \in Seq(Rows!Kinds)
    BY <1>1, <1>2
<1>4. Len(r) \in Nat /\ DOMAIN r = 1..Len(r)
    BY <1>3
<1>5. Rows!First(r) \in {0, 1} /\ Rows!First(r) <= Len(r)
    <2> HIDE DEF r
    <2> QED BY <1>3, <1>4 DEF Rows!First
<1> QED BY <1>1, <1>2, <1>3, <1>4, <1>5

(* The clock is not part of what is seen.                                  *)
LEMMA ClockUnseen ==
    ASSUME NEW l \in RowList, NEW c \in Clock
    PROVE  LET q == [l EXCEPT !.clock = c]
           IN  /\ q \in RowList /\ q.clock = c /\ Rows!View(q) = Rows!View(l)
               /\ q.open = l.open /\ q.surface = l.surface /\ q.fade = l.fade
               /\ \A s, m : RowsFor(l, s, m) /\ ClockOK(c) => RowsFor(q, s, m)
<1> DEFINE q == [l EXCEPT !.clock = c]
<1>1. /\ q \in RowList /\ q.clock = c /\ q.surface = l.surface /\ q.open = l.open
      /\ q.fade = l.fade /\ q.screen = l.screen /\ q.sel = l.sel /\ q.apps = l.apps
      /\ q.results = l.results /\ q.dirty = l.dirty /\ q.searching = l.searching
    BY DEF RowList
<1> HIDE DEF q
<1>2. Rows!Rows(q) = Rows!Rows(l)
    BY <1>1 DEF Rows!Rows
<1>3. Rows!View(q) = Rows!View(l)
    BY <1>1, <1>2 DEF Rows!View
<1>4. \A s, m : RowsFor(l, s, m) /\ ClockOK(c) => RowsFor(q, s, m)
    BY <1>1, <1>2 DEF RowsFor, Live, Selects
<1> QED BY <1>1, <1>3, <1>4 DEF q

(* A frame moves the fade; the end of the closing one empties the list     *)
(* (launcher_paint).                                                       *)
LEMMA TickKeepsRows ==
    ASSUME NEW s \in BOOLEAN, NEW m \in BOOLEAN, NEW l, RowsFor(l, s, m),
           NEW x \in Rows!Ticked(l)
    PROVE  RowsFor(x, s, m) /\ x.clock = l.clock
<1>1. CASE x = l
    BY <1>1
<1>2. CASE l.fade = "opening" /\ x = [l EXCEPT !.fade = "none"]
    <2>1. /\ x \in RowList /\ x.clock = l.clock /\ x.surface = l.surface /\ x.open = l.open
          /\ x.fade = "none" /\ x.screen = l.screen /\ x.sel = l.sel /\ x.apps = l.apps
          /\ x.results = l.results /\ x.dirty = l.dirty /\ x.searching = l.searching
        BY <1>2 DEF RowsFor, Live, RowList
    <2>2. Rows!Rows(x) = Rows!Rows(l)
        BY <2>1 DEF Rows!Rows
    <2> QED BY <1>2, <2>1, <2>2 DEF RowsFor, Live, Selects
<1>3. CASE l.fade = "closing" /\ x = Rows!FadeDone(l)
    <2>1. <<>> \in Seq(Row)
        OBVIOUS
    <2>2. l \in RowList
        BY DEF RowsFor, Live
    <2>3. /\ x \in RowList /\ x.clock = l.clock /\ x.surface = l.surface /\ ~x.open
          /\ x.fade = "none" /\ x.sel = 0 /\ x.results = <<>>
          /\ x.dirty = l.dirty /\ x.searching = l.searching
        BY <1>3, <2>1, <2>2
           DEF RowList, Rows!FadeDone, Rows!SubmenuClose, Rows!Screens, Rows!Texts, Rows!Nothing
    <2> QED BY <1>3, <2>3 DEF RowsFor, Live, Selects
<1> QED BY <1>1, <1>2, <1>3 DEF Rows!Ticked, RowsFor, Live, RowList

LEMMA PaintKeepsRows ==
    ASSUME NEW s \in BOOLEAN, NEW m \in BOOLEAN, NEW l, RowsFor(l, s, m),
           l.clock.callback # "none", NEW q \in Rows!Paint(l)
    PROVE  RowsFor(q, s, m) /\ Quiet(q.clock)
<1>1. PICK x \in Rows!Ticked(l) :
         \/ q = [x EXCEPT !.clock = Rows!Deferred(Rows!Committed(x.clock))]
         \/ q = [x EXCEPT !.clock = Rows!Committed(x.clock)]
    BY DEF Rows!Paint
<1>2. RowsFor(x, s, m) /\ x.clock = l.clock /\ x \in RowList /\ ClockOK(x.clock)
      /\ x.clock \in Clock /\ x.clock.callback # "none"
    BY TickKeepsRows DEF RowsFor, Live, ClockOK
<1>3. /\ Quiet(Committed(x.clock)) /\ Committed(x.clock).callback = "committed"
    BY <1>2, ClockMoves
<1>4. ClockOK(Committed(x.clock)) /\ Committed(x.clock) \in Clock
    BY <1>3 DEF Quiet, ClockOK
<1>5. ClockOK(Deferred(Committed(x.clock))) /\ Quiet(Deferred(Committed(x.clock)))
      /\ Deferred(Committed(x.clock)) \in Clock
    BY <1>3, <1>4, ClockMoves DEF Quiet, ClockOK
<1>6. CASE q = [x EXCEPT !.clock = Rows!Deferred(Rows!Committed(x.clock))]
    BY <1>2, <1>5, <1>6, ClocksAgree, ClockUnseen
<1>7. CASE q = [x EXCEPT !.clock = Rows!Committed(x.clock)]
    BY <1>2, <1>3, <1>4, <1>7, ClocksAgree, ClockUnseen
<1> QED BY <1>1, <1>6, <1>7

\* What was painted is the list as it is, or another frame comes.
OnScreen(l, p) ==
    /\ p \in Seq(Rows!Kinds) \X Nat
    /\ l.open => l.clock.redraw \/ p = Rows!View(l)

LEMMA ViewTyped ==
    ASSUME NEW l \in RowList
    PROVE  Rows!View(l) \in Seq(Rows!Kinds) \X Nat
<1>1. Rows!Rows(l) \in Seq(Rows!Kinds) /\ l.sel \in Nat
    BY RowsCounted DEF RowList
<1>2. <<>> \in Seq(Rows!Kinds) /\ 0 \in Nat
    OBVIOUS
<1> QED BY ONLY <1>1, <1>2 DEF Rows!View

(* Whatever a handler left is painted, or will be                          *)
(* (launcher_request_frame).                                               *)
LEMMA RowsDrawn ==
    ASSUME NEW s \in BOOLEAN, NEW m \in BOOLEAN, NEW d, RowsFor(d, s, m), Quiet(d.clock),
           painted \in Seq(Rows!Kinds) \X Nat, Rows!Drawn(d)
    PROVE  RowsFor(list', s, m) /\ Quiet(list'.clock) /\ OnScreen(list', painted')
<1> DEFINE first == [d EXCEPT !.clock = Rows!FirstDraw(@)]
<1>1. /\ list' \in Rows!RequestFrame(d)
      /\ painted' = IF Rows!Painting(d) THEN Rows!View(list') ELSE painted
    BY DEF Rows!Drawn
<1>2. d \in RowList /\ d.clock \in Clock /\ ClockOK(d.clock) /\ (d.open => d.surface)
    BY DEF RowsFor, Live, ClockOK
<1>3. CASE ~d.open
    <2>1. list' = d /\ painted' = painted
        BY <1>1, <1>3 DEF Rows!RequestFrame, Rows!Painting
    <2> QED BY <1>3, <2>1 DEF OnScreen
<1>4. CASE d.open /\ d.clock.callback # "none"
    <2>1. list' = [d EXCEPT !.clock = Deferred(d.clock)] /\ painted' = painted
        BY <1>1, <1>2, <1>4, ClocksAgree DEF Rows!RequestFrame, Rows!Painting
    <2>2. /\ Deferred(d.clock) \in Clock /\ ClockOK(Deferred(d.clock))
          /\ Quiet(Deferred(d.clock)) /\ Deferred(d.clock).redraw
        BY <1>2, <1>4, ClockMoves DEF Quiet, ClockOK
    <2>3. RowsFor(list', s, m) /\ list'.clock = Deferred(d.clock)
        BY <1>2, <2>1, <2>2, ClockUnseen
    <2> QED BY <2>1, <2>2, <2>3 DEF OnScreen
<1>5. CASE d.open /\ d.clock.callback = "none" /\ d.clock.mapped
    <2>1. list' = [d EXCEPT !.clock = Scheduled(d.clock)] /\ painted' = painted
        BY <1>1, <1>2, <1>5, ClocksAgree DEF Rows!RequestFrame, Rows!Painting
    <2>2. /\ Scheduled(d.clock) \in Clock /\ ClockOK(Scheduled(d.clock))
          /\ Quiet(Scheduled(d.clock)) /\ Scheduled(d.clock).redraw
        BY <1>2, <1>5, ClockMoves DEF Quiet, ClockOK
    <2>3. RowsFor(list', s, m) /\ list'.clock = Scheduled(d.clock)
        BY <1>2, <2>1, <2>2, ClockUnseen
    <2> QED BY <2>1, <2>2, <2>3 DEF OnScreen
<1>6. CASE d.open /\ d.clock.callback = "none" /\ ~d.clock.mapped
    <2>1. list' \in Rows!Paint(first) /\ painted' = Rows!View(list')
        BY <1>1, <1>2, <1>6 DEF Rows!RequestFrame, Rows!Painting
    <2>2. /\ FirstDraw(d.clock) \in Clock /\ ClockOK(FirstDraw(d.clock))
          /\ FirstDraw(d.clock).callback = "armed"
        BY <1>2, <1>6, ClockMoves DEF ClockOK
    <2>3. first = [d EXCEPT !.clock = FirstDraw(d.clock)]
        BY ClocksAgree
    <2> HIDE DEF first
    <2>4. RowsFor(first, s, m) /\ first.clock = FirstDraw(d.clock)
        BY <1>2, <2>2, <2>3, ClockUnseen
    <2>5. RowsFor(list', s, m) /\ Quiet(list'.clock)
        BY <2>1, <2>2, <2>4, PaintKeepsRows
    <2>6. list' \in RowList
        BY <2>5 DEF RowsFor, Live
    <2> QED BY <2>1, <2>5, <2>6, ViewTyped DEF OnScreen
<1> QED BY <1>3, <1>4, <1>5, <1>6

-----------------------------------------------------------------------------
\* Only the submenu and the selection differ.
SameSearch(l, q) ==
    /\ q \in RowList /\ q.surface = l.surface /\ q.open = l.open /\ q.fade = l.fade
    /\ q.clock = l.clock /\ q.apps = l.apps /\ q.results = l.results
    /\ q.dirty = l.dirty /\ q.searching = l.searching

LEMMA MovedAbout ==
    ASSUME NEW s \in BOOLEAN, NEW m \in BOOLEAN, NEW l, Live(l, s), l.open,
           NEW q, SameSearch(l, q), q.sel <= Len(Rows!Rows(q))
    PROVE  RowsFor(q, s, m)
BY DEF RowsFor, Live, SameSearch, Selects

(* A closing launcher searches no more (launcher_close).                   *)
LEMMA CloseKeepsRows ==
    ASSUME NEW s \in BOOLEAN, NEW m \in BOOLEAN, NEW l, Live(l, s), l.open
    PROVE  LET q == Rows!Toggle(l) IN RowsFor(q, s, m) /\ q.clock = l.clock
<1> DEFINE q == [l EXCEPT !.dirty = FALSE, !.searching = FALSE, !.fade = "closing"]
<1>1. Rows!Toggle(l) = q
    BY DEF Live, Rows!Toggle, Rows!Close
<1>2. /\ q \in RowList /\ q.surface = l.surface /\ q.open = l.open /\ q.fade = "closing"
      /\ q.clock = l.clock /\ q.apps = l.apps /\ q.results = l.results
      /\ ~q.dirty /\ ~q.searching
    BY DEF Live, RowList
<1> HIDE DEF q
<1> QED BY <1>1, <1>2 DEF RowsFor, Live, Selects

(* An opening launcher has nothing of an earlier opening (launcher_open).  *)
LEMMA OpenKeepsRows ==
    ASSUME NEW s \in BOOLEAN, NEW m \in BOOLEAN, NEW l, Live(l, s), ~l.open, l.surface,
           Quiet(l.clock), l.apps < MaxOpens
    PROVE  LET q == Rows!Toggle(l) IN RowsFor(q, s, m) /\ q.clock = l.clock
<1> DEFINE q == [l EXCEPT !.apps = @ + 1, !.open = TRUE, !.fade = "opening",
                          !.clock = l.clock]
<1>1. l \in RowList /\ l.clock \in Clock /\ ClockOK(l.clock)
    BY DEF Live, ClockOK
<1>2. l.apps + 1 \in Openings
    BY <1>1, PanelsAssumption DEF RowList, Openings
<1>3. Rows!Committed(l.clock) = l.clock
    BY <1>1, ClocksAgree, ClockMoves
<1>4. Rows!Toggle(l) = q
    BY <1>3 DEF Rows!Toggle
<1>5. /\ q \in RowList /\ q.surface /\ q.open /\ q.fade = "opening" /\ q.sel = l.sel
      /\ q.clock = l.clock /\ q.results = l.results
      /\ q.dirty = l.dirty /\ q.searching = l.searching
    BY <1>1, <1>2 DEF RowList
<1> HIDE DEF q
<1>6. ~s => q.results = <<>> /\ q.sel = 0
    BY <1>5 DEF Live
<1>7. Len(Rows!Rows(q)) \in Nat
    BY <1>5, RowsCounted
<1>8. ~s => q.sel <= Len(Rows!Rows(q))
    BY <1>6, <1>7
<1>9. ~s => \A i \in DOMAIN q.results : q.results[i].apps = q.apps
    BY <1>6
<1> QED BY <1>1, <1>4, <1>5, <1>8, <1>9 DEF RowsFor, Live, Selects

(* A submenu, entered or left, has its first row selected (submenu.cpp,    *)
(* launcher_launch_selected).                                              *)
LEMMA LaunchKeepsRows ==
    ASSUME NEW s \in BOOLEAN, NEW m \in BOOLEAN, NEW l, RowsFor(l, s, m), l.open
    PROVE  LET q == Rows!LaunchSelected(l) IN RowsFor(q, s, m) /\ q.clock = l.clock
<1> DEFINE q == Rows!LaunchSelected(l)
           dir == [Rows!OpenDirectory(l) EXCEPT !.sel = 1]
           act == [Rows!OpenDirectoryActions(l) EXCEPT !.sel = 1]
           file == [Rows!OpenFileActions(l) EXCEPT !.sel = 1]
<1>1. Live(l, s) /\ l \in RowList
    BY DEF RowsFor, Live
<1>2. ASSUME NEW x \in {dir, act, file} PROVE RowsFor(x, s, m) /\ x.clock = l.clock
    <2>1. PICK b \in BOOLEAN : b = (l.screen = "Browse")
        <3>1. (l.screen = "Browse") \in BOOLEAN
            OBVIOUS
        <3> QED BY ONLY <3>1, Zenon
    <2>2. file = [l EXCEPT !.screen = "FileActions", !.browse = b, !.sel = 1]
        BY <2>1 DEF Rows!OpenFileActions
    <2>3. SameSearch(l, x) /\ x.screen # "Search" /\ x.sel = 1
        <3>1. CASE x = dir
            BY <1>1, <3>1 DEF SameSearch, RowList, Rows!OpenDirectory, Rows!Screens
        <3>2. CASE x = act
            BY <1>1, <3>2 DEF SameSearch, RowList, Rows!OpenDirectoryActions, Rows!Screens
        <3>3. CASE x = file
            <4>1. x = [l EXCEPT !.screen = "FileActions", !.browse = b, !.sel = 1]
                BY <2>2, <3>3
            <4> QED BY ONLY <1>1, <4>1, b \in BOOLEAN DEF SameSearch, RowList, Rows!Screens
        <3> QED BY <3>1, <3>2, <3>3
    <2> HIDE DEF dir, act, file
    <2>4. x.sel <= Len(Rows!Rows(x))
        <3>1. Len(Rows!Rows(x)) \in Nat /\ Len(Rows!Rows(x)) >= 2 /\ x.sel = 1
            BY <2>3, RowsCounted DEF SameSearch
        <3> QED BY <3>1
    <2> QED BY <1>1, <2>3, <2>4, MovedAbout DEF SameSearch
<1>3. q \in {l, Rows!Toggle(l), dir, act, file}
    <2>1. CASE l.screen = "Search" /\ l.text = "url"
        BY <2>1 DEF Rows!LaunchSelected
    <2>2. CASE ~(l.screen = "Search" /\ l.text = "url") /\ l.sel \notin DOMAIN Rows!Rows(l)
        BY <2>2 DEF Rows!LaunchSelected
    <2>3. CASE ~(l.screen = "Search" /\ l.text = "url") /\ l.sel \in DOMAIN Rows!Rows(l)
        <3> DEFINE kind == Rows!Rows(l)[l.sel]
        <3>1. kind \in Rows!Kinds
            BY <1>1, <2>3, RowsCounted
        <3> HIDE DEF kind, dir, act, file
        <3>2. q = CASE kind \in {"app", "run"} -> Rows!Toggle(l)
                    [] kind \in {"dir", "prev"} -> dir
                    [] kind = "file" -> file
                    [] kind \in {"options", "containing"} -> act
            BY <2>3 DEF Rows!LaunchSelected, kind, dir, act, file
        <3> HIDE DEF q
        <3> QED BY <3>1, <3>2 DEF Rows!Kinds
    <2> QED BY <2>1, <2>2, <2>3
<1> HIDE DEF q, dir, act, file
<1>4. RowsFor(Rows!Toggle(l), s, m) /\ Rows!Toggle(l).clock = l.clock
    BY <1>1, CloseKeepsRows
<1>5. RowsFor(q, s, m) /\ q.clock = l.clock
    BY <1>2, <1>3, <1>4
<1> QED BY <1>5 DEF q

LEMMA BackKeepsRows ==
    ASSUME NEW s \in BOOLEAN, NEW m \in BOOLEAN, NEW l, RowsFor(l, s, m), l.open
    PROVE  LET q == Rows!Back(l) IN RowsFor(q, s, m) /\ q.clock = l.clock
<1> DEFINE g == Rows!GoBack(l)
           n == Rows!First(Rows!Rows(g))
           q == [g EXCEPT !.sel = n]
<1>1. Live(l, s) /\ l \in RowList
    BY DEF RowsFor, Live
<1>2. SameSearch(l, g)
    BY <1>1 DEF Rows!GoBack, Rows!OpenDirectory, Rows!SubmenuClose, Rows!Screens,
                SameSearch, RowList
<1>3. Rows!Back(l) = q
    BY DEF Rows!Back
<1> HIDE DEF g
<1>4. n \in {0, 1} /\ n <= Len(Rows!Rows(g)) /\ n \in Nat
    BY <1>2, RowsCounted DEF SameSearch
<1> HIDE DEF n
<1>5. SameSearch(l, q) /\ q.sel = n /\ q.screen = g.screen /\ q.results = g.results
    BY <1>2, <1>4 DEF SameSearch, RowList
<1> HIDE DEF q
<1>6. Rows!Rows(q) = Rows!Rows(g)
    BY <1>5 DEF Rows!Rows
<1>7. RowsFor(q, s, m)
    BY <1>1, <1>4, <1>5, <1>6, MovedAbout
<1> QED BY <1>3, <1>5, <1>7 DEF SameSearch

(* Up and Down stay among the rows (launcher_move_selection).              *)
LEMMA MoveKeepsRows ==
    ASSUME NEW s \in BOOLEAN, NEW m \in BOOLEAN, NEW l, RowsFor(l, s, m), l.open,
           NEW delta \in {0, 2}
    PROVE  LET q == Rows!Moved(l, delta) IN RowsFor(q, s, m) /\ q.clock = l.clock
<1> DEFINE count == Len(Rows!Rows(l))
           n == IF count = 0 THEN 0
                ELSE IF l.sel + delta < 2 THEN 1
                ELSE IF (l.sel + delta) - 1 > count THEN count ELSE (l.sel + delta) - 1
           q == [l EXCEPT !.sel = n]
<1>1. Live(l, s) /\ l \in RowList
    BY DEF RowsFor, Live
<1>2. Rows!Moved(l, delta) = q
    BY DEF Rows!Moved
<1>3. n \in Nat /\ n <= count
    <2>1. count \in Nat /\ l.sel \in Nat
        BY <1>1, RowsCounted DEF RowList
    <2> HIDE DEF count
    <2> QED BY <2>1
<1> HIDE DEF n
<1>4. SameSearch(l, q) /\ q.sel = n /\ q.screen = l.screen /\ q.results = l.results
    BY <1>1, <1>3 DEF SameSearch, RowList
<1> HIDE DEF q
<1>5. Rows!Rows(q) = Rows!Rows(l)
    BY <1>4 DEF Rows!Rows
<1>6. RowsFor(q, s, m)
    BY <1>1, <1>3, <1>4, <1>5, MovedAbout
<1> QED BY <1>2, <1>4, <1>6 DEF SameSearch

(* What a search found is stamped with the applications of this opening    *)
(* (launcher_search_poll).                                                 *)
LEMMA PollKeepsRows ==
    ASSUME NEW s \in BOOLEAN, NEW m \in BOOLEAN, NEW l, RowsFor(l, s, m), l.searching,
           NEW found \in Found
    PROVE  LET q == Rows!SearchPoll(l, found) IN RowsFor(q, s, m) /\ q.clock = l.clock
<1> DEFINE rows == [i \in DOMAIN found |-> [kind |-> found[i], apps |-> l.apps]]
           n == Rows!First(found)
           q == [l EXCEPT !.searching = FALSE, !.sel = n, !.results = rows]
<1>1. Live(l, s) /\ l \in RowList /\ l.apps \in Openings
    BY DEF RowsFor, Live, RowList
<1>2. /\ found \in Seq({"app", "dir", "file"}) /\ Len(found) \in Nat
      /\ DOMAIN found = 1..Len(found)
      /\ \A i \in 1..Len(found) : found[i] \in {"app", "dir", "file"}
    BY PanelsAssumption
<1>3. /\ rows \in Seq(Row) /\ Len(rows) = Len(found)
      /\ \A i \in DOMAIN rows : rows[i].apps = l.apps
    <2>1. rows = [i \in 1..Len(found) |-> [kind |-> found[i], apps |-> l.apps]]
        BY <1>2
    <2> HIDE DEF rows
    <2>2. \A i \in 1..Len(found) : [kind |-> found[i], apps |-> l.apps] \in Row
        BY <1>1, <1>2 DEF Row, Rows!Kinds
    <2>3. rows \in [1..Len(found) -> Row]
        BY <2>1, <2>2
    <2>4. \A i \in DOMAIN rows : rows[i].apps = l.apps
        BY <2>1
    <2> QED BY <1>2, <2>3, <2>4
<1>4. n \in Nat /\ n \in {0, 1} /\ n <= Len(found)
    BY <1>2 DEF Rows!First
<1>5. Rows!SearchPoll(l, found) = q
    BY DEF Rows!SearchPoll
<1> HIDE DEF rows, n
<1>6. /\ q \in RowList /\ q.surface = l.surface /\ q.open = l.open /\ q.fade = l.fade
      /\ q.clock = l.clock /\ q.apps = l.apps /\ q.results = rows /\ q.sel = n
      /\ q.dirty = l.dirty /\ ~q.searching /\ q.screen = l.screen
    BY <1>1, <1>3, <1>4 DEF RowList
<1> HIDE DEF q
<1>7. q.sel <= Len(Rows!Rows(q))
    <2>1. CASE q.screen = "Search"
        BY <1>3, <1>4, <1>6, <2>1, RowsCounted
    <2>2. CASE q.screen # "Search"
        <3>1. Len(Rows!Rows(q)) \in Nat /\ Len(Rows!Rows(q)) >= 2
            BY <1>6, <2>2, RowsCounted
        <3> QED BY <1>4, <1>6, <3>1
    <2> QED BY <2>1, <2>2
<1> QED BY <1>1, <1>3, <1>5, <1>6, <1>7 DEF RowsFor, Live, Selects

-----------------------------------------------------------------------------
\* The invariant by its parts.
RowsPlain ==
    /\ RowsFor(list, stray, misclick) /\ Quiet(list.clock) /\ OnScreen(list, painted)
    /\ stray \in BOOLEAN /\ misclick \in BOOLEAN /\ strokes \in 0..MaxStrokes

LEMMA RowsInvPlain == RowsInv <=> RowsPlain
<1>1. Rows!TypeOK <=> /\ list \in RowList /\ ClockOK(list.clock)
                      /\ stray \in BOOLEAN /\ misclick \in BOOLEAN
                      /\ strokes \in 0..MaxStrokes
    <2>1. Rows!ClockOK(list.clock) <=> ClockOK(list.clock)
        BY ClocksAgree
    <2>2. Rows!Clock = Clock
        BY ClocksAgree
    <2>3. Rows!TypeOK <=> /\ list \in RowList /\ Rows!ClockOK(list.clock)
                          /\ {stray, misclick} \subseteq BOOLEAN
                          /\ strokes \in 0..MaxStrokes
        BY <2>2, Zenon DEF Rows!TypeOK, RowList, Row, Openings
    <2> QED BY <2>1, <2>3
<1>2. Rows!RowsAreLive <=> (list.open /\ ~stray =>
          \A i \in DOMAIN list.results : list.results[i].apps = list.apps)
    BY DEF Rows!RowsAreLive
<1> QED BY <1>1, <1>2 DEF RowsInv, RowsPlain, RowsFor, Live, Selects, OnScreen

\* Strays and misclicks only ever excuse more.
LEMMA RowsGrow ==
    ASSUME NEW s, NEW m, NEW l, RowsFor(l, s, m),
           NEW s2, NEW m2, s => s2, m => m2
    PROVE  RowsFor(l, s2, m2)
BY DEF RowsFor, Live, Selects

LEMMA RowsAfter ==
    ASSUME RowsPlain, NEW d, RowsFor(d, stray', misclick'), Quiet(d.clock), Rows!Drawn(d),
           stray' \in BOOLEAN, misclick' \in BOOLEAN, strokes' \in 0..MaxStrokes
    PROVE  RowsPlain'
<1>1. RowsFor(list', stray', misclick') /\ Quiet(list'.clock) /\ OnScreen(list', painted')
    BY RowsDrawn DEF RowsPlain, OnScreen
<1> QED BY <1>1 DEF RowsPlain

LEMMA RowsInitially == Rows!Init => RowsInv
<1> SUFFICES ASSUME Rows!Init PROVE RowsPlain
    BY RowsInvPlain
<1> USE DEF Rows!Init
<1>1. Rows!IdleClock = IdleClock /\ IdleClock \in Clock /\ Quiet(IdleClock)
      /\ ClockOK(IdleClock)
    BY ClocksAgree DEF IdleClock, Clock, Callbacks, Quiet, ClockOK
<1>2. 0 \in Openings /\ <<>> \in Seq(Row) /\ <<>> \in Seq(Rows!Kinds)
    BY PanelsAssumption DEF Openings
<1>3. /\ list \in RowList /\ list.surface /\ ~list.open /\ list.fade = "none"
      /\ list.clock = IdleClock /\ list.results = <<>> /\ list.sel = 0
      /\ ~list.dirty /\ ~list.searching
    BY <1>1, <1>2 DEF RowList, Rows!Screens, Rows!Texts, Rows!Nothing
<1>4. RowsFor(list, stray, misclick)
    BY ONLY <1>1, <1>3 DEF RowsFor, Live, Selects
<1>5. OnScreen(list, painted)
    BY <1>2, <1>3 DEF OnScreen
<1>6. stray \in BOOLEAN /\ misclick \in BOOLEAN /\ strokes \in 0..MaxStrokes
    <2>1. MaxStrokes \in Nat
        BY PanelsAssumption
    <2>2. strokes \in 0..MaxStrokes
        BY <2>1
    <2> QED BY <2>2
<1>7. Quiet(list.clock)
    BY <1>1, <1>3
<1> QED BY ONLY <1>4, <1>5, <1>6, <1>7 DEF RowsPlain

LEMMA RowsStep == RowsInv /\ Rows!Next => RowsInv'
<1> SUFFICES ASSUME RowsPlain, Rows!Next PROVE RowsPlain'
    BY RowsInvPlain, PTL
<1>1. /\ RowsFor(list, stray, misclick) /\ Live(list, stray) /\ Quiet(list.clock)
      /\ OnScreen(list, painted) /\ list \in RowList /\ list.clock \in Clock
      /\ ClockOK(list.clock) /\ painted \in Seq(Rows!Kinds) \X Nat
    BY DEF RowsPlain, RowsFor, Live, OnScreen, ClockOK
<1>2. stray \in BOOLEAN /\ misclick \in BOOLEAN /\ strokes \in 0..MaxStrokes
    BY DEF RowsPlain
<1>3. IdleClock \in Clock /\ ClockOK(IdleClock) /\ Quiet(IdleClock)
    BY DEF IdleClock, Clock, Callbacks, Quiet, ClockOK
<1>4. Rows!Stroke => strokes' \in 0..MaxStrokes
    BY <1>2, PanelsAssumption DEF Rows!Stroke
<1>5. ASSUME Rows!Frame PROVE RowsPlain'
    <2>1. UNCHANGED <<stray, misclick, strokes>>
        BY <1>5 DEF Rows!Frame
    <2>2. RowsFor(list', stray, misclick) /\ Quiet(list'.clock) /\ OnScreen(list', painted')
        <3>1. list.clock.callback = "committed"
            BY <1>5 DEF Rows!Frame
        <3>2. CASE list.clock.redraw
            <4> DEFINE d == [list EXCEPT !.clock = DoneForDraw(list.clock)]
            <4>1. list' \in Rows!Paint(d) /\ painted' = Rows!View(list')
                BY <1>5, <3>2, ClocksAgree DEF Rows!Frame
            <4>2. /\ ClockOK(DoneForDraw(list.clock)) /\ DoneForDraw(list.clock) \in Clock
                  /\ DoneForDraw(list.clock).callback = "armed"
                BY <1>1, <3>1, ClockMoves DEF ClockOK
            <4>3. RowsFor(d, stray, misclick) /\ d.clock = DoneForDraw(list.clock)
                BY <1>1, <4>2, ClockUnseen
            <4> HIDE DEF d
            <4>4. RowsFor(list', stray, misclick) /\ Quiet(list'.clock)
                BY <1>2, <4>1, <4>2, <4>3, PaintKeepsRows
            <4>5. list' \in RowList
                BY <4>4 DEF RowsFor, Live
            <4> QED BY <4>1, <4>4, <4>5, ViewTyped DEF OnScreen
        <3>3. CASE ~list.clock.redraw
            <4>1. list' = [list EXCEPT !.clock = DoneIdle(list.clock)] /\ painted' = painted
                BY <1>5, <3>3, ClocksAgree DEF Rows!Frame
            <4>2. /\ Quiet(DoneIdle(list.clock)) /\ DoneIdle(list.clock) \in Clock
                  /\ ClockOK(DoneIdle(list.clock))
                BY <1>1, <3>1, <3>3, ClockMoves DEF Quiet, ClockOK
            <4>3. /\ RowsFor(list', stray, misclick) /\ list'.clock = DoneIdle(list.clock)
                  /\ Rows!View(list') = Rows!View(list) /\ list'.open = list.open
                BY <1>1, <4>1, <4>2, ClockUnseen
            <4> QED BY <1>1, <3>3, <4>1, <4>2, <4>3 DEF OnScreen
        <3> QED BY <3>2, <3>3
    <2> QED BY <1>2, <2>1, <2>2 DEF RowsPlain
<1>6. ASSUME Rows!Command PROVE RowsPlain'
    <2>1. /\ UNCHANGED <<stray, misclick, strokes>> /\ (list.open \/ list.apps < MaxOpens)
          /\ \/ Rows!Drawn(Rows!Toggle(list)) /\ (list.open \/ list.surface)
             \/ ~list.open /\ Rows!Drawn(Rows!Toggle([list EXCEPT !.surface = TRUE,
                                                                  !.clock = IdleClock]))
        <3>1. PICK moved0 \in IF list.open THEN {FALSE} ELSE {~list.surface, TRUE} :
                 Rows!Drawn(Rows!Toggle(IF moved0 THEN [list EXCEPT !.surface = TRUE,
                                                                   !.clock = IdleClock]
                                        ELSE list))
            BY <1>6, ClocksAgree DEF Rows!Command
        <3>2. UNCHANGED <<stray, misclick, strokes>> /\ (list.open \/ list.apps < MaxOpens)
            BY <1>6 DEF Rows!Command
        <3>3. CASE moved0
            BY <3>1, <3>2, <3>3
        <3>4. CASE ~moved0
            BY <1>1, <3>1, <3>2, <3>4 DEF RowList
        <3> QED BY <3>3, <3>4
    <2>2. ASSUME NEW d, RowsFor(d, stray, misclick), Quiet(d.clock), Rows!Drawn(d)
          PROVE  RowsPlain'
        BY <1>2, <2>1, <2>2, RowsAfter
    <2>3. CASE list.open /\ Rows!Drawn(Rows!Toggle(list))
        <3>1. RowsFor(Rows!Toggle(list), stray, misclick) /\ Quiet(Rows!Toggle(list).clock)
            BY <1>1, <1>2, <2>3, CloseKeepsRows
        <3> QED BY <2>2, <2>3, <3>1
    <2>4. CASE ~list.open /\ list.surface /\ Rows!Drawn(Rows!Toggle(list))
        <3>1. RowsFor(Rows!Toggle(list), stray, misclick) /\ Quiet(Rows!Toggle(list).clock)
            BY <1>1, <1>2, <2>1, <2>4, OpenKeepsRows
        <3> QED BY <2>2, <2>4, <3>1
    <2>5. CASE ~list.open /\ Rows!Drawn(Rows!Toggle([list EXCEPT !.surface = TRUE,
                                                                  !.clock = IdleClock]))
        <3> DEFINE d == [list EXCEPT !.surface = TRUE, !.clock = IdleClock]
        <3>1. /\ d \in RowList /\ d.surface /\ ~d.open /\ d.fade = list.fade
              /\ d.clock = IdleClock /\ d.sel = list.sel /\ d.apps = list.apps
              /\ d.results = list.results /\ d.dirty = list.dirty
              /\ d.searching = list.searching
            BY <1>1, <1>3, <2>5 DEF RowList
        <3> HIDE DEF d
        <3>2. Live(d, stray)
            BY <1>1, <1>3, <2>5, <3>1 DEF Live
        <3>3. RowsFor(Rows!Toggle(d), stray, misclick) /\ Quiet(Rows!Toggle(d).clock)
            BY <1>2, <1>3, <2>1, <2>5, <3>1, <3>2, OpenKeepsRows
        <3> QED BY <2>2, <2>5, <3>3 DEF d
    <2> QED BY <2>1, <2>3, <2>4, <2>5
<1>7. ASSUME Rows!DestroySurface PROVE RowsPlain'
    <2>1. UNCHANGED <<painted, stray, misclick, strokes>>
        BY <1>7 DEF Rows!DestroySurface
    <2>2. /\ list' \in RowList /\ list'.open = list.open /\ list'.fade = list.fade
          /\ list'.screen = list.screen /\ list'.sel = list.sel /\ list'.apps = list.apps
          /\ list'.results = list.results /\ list'.dirty = list.dirty
          /\ list'.searching = list.searching
          /\ list.open => list'.surface = list.surface /\ list'.clock = list.clock
          /\ list'.clock = list.clock \/ list'.clock = IdleClock
        BY <1>1, <1>3, <1>7, ClocksAgree DEF Rows!DestroySurface, RowList
    <2>3. Rows!Rows(list') = Rows!Rows(list)
        BY <2>2 DEF Rows!Rows
    <2>4. RowsFor(list', stray, misclick) /\ Quiet(list'.clock)
        BY <1>1, <1>3, <2>2, <2>3 DEF RowsFor, Live, Selects
    <2>5. OnScreen(list', painted)
        BY <1>1, <2>2, <2>3 DEF OnScreen, Rows!View
    <2> QED BY <1>2, <2>1, <2>4, <2>5 DEF RowsPlain
<1>8. ASSUME Rows!OutputRemoved PROVE RowsPlain'
    <2>1. UNCHANGED <<painted, misclick, strokes>> /\ stray' = (stray \/ list.open)
        BY <1>8 DEF Rows!OutputRemoved
    <2>2. list.open \in BOOLEAN
        BY <1>1 DEF RowList
    <2>3. stray' \in BOOLEAN
        BY <2>1
    <2>4. /\ list' \in RowList /\ ~list'.open /\ ~list'.surface /\ list'.fade = "none"
          /\ list'.clock = IdleClock /\ list'.sel = list.sel
          /\ list'.results = list.results /\ list'.dirty = list.dirty
          /\ list'.searching = list.searching
        BY <1>1, <1>3, <1>8, ClocksAgree DEF Rows!OutputRemoved, RowList
    <2>5. RowsFor(list', stray', misclick)
        BY <1>1, <1>3, <2>1, <2>4 DEF RowsFor, Live, Selects
    <2>6. OnScreen(list', painted) /\ Quiet(list'.clock)
        BY <1>1, <1>3, <2>4 DEF OnScreen
    <2> QED BY <1>2, <2>1, <2>3, <2>5, <2>6 DEF RowsPlain
<1>9. ASSUME Rows!Tick PROVE RowsPlain'
    <2> DEFINE run == [list EXCEPT !.dirty = FALSE, !.searching = TRUE]
               clear == [list EXCEPT !.dirty = FALSE, !.results = <<>>, !.sel = 0]
    <2>1. /\ UNCHANGED <<stray, misclick, strokes>> /\ list.dirty
          /\ Rows!Drawn(run) \/ Rows!Drawn(clear)
        BY <1>9 DEF Rows!Tick
    <2>2. /\ run \in RowList /\ run.surface = list.surface /\ run.open = list.open
          /\ run.fade = list.fade /\ run.clock = list.clock /\ run.apps = list.apps
          /\ run.results = list.results /\ run.sel = list.sel /\ run.searching
        BY <1>1 DEF RowList
    <2>3. <<>> \in Seq(Row)
        OBVIOUS
    <2>4. /\ clear \in RowList /\ clear.surface = list.surface /\ clear.open = list.open
          /\ clear.fade = list.fade /\ clear.clock = list.clock /\ clear.apps = list.apps
          /\ clear.results = <<>> /\ clear.sel = 0 /\ clear.searching = list.searching
          /\ ~clear.dirty
        BY <1>1, <2>3 DEF RowList
    <2> HIDE DEF run, clear
    <2>5. RowsFor(run, stray, misclick)
        BY <1>1, <2>1, <2>2 DEF RowsFor, Live, Selects
    <2>6. clear.sel <= Len(Rows!Rows(clear))
        <3>1. Len(Rows!Rows(clear)) \in Nat
            BY <2>4, RowsCounted
        <3> QED BY <2>4, <3>1
    <2>7. RowsFor(clear, stray, misclick)
        BY <1>1, <2>1, <2>4, <2>6 DEF RowsFor, Live, Selects
    <2> QED BY <1>1, <1>2, <2>1, <2>2, <2>4, <2>5, <2>7, RowsAfter
<1>10. ASSUME Rows!SearchDone PROVE RowsPlain'
    <2>1. UNCHANGED <<stray, misclick, strokes>> /\ list.searching
        BY <1>10 DEF Rows!SearchDone
    <2>2. PICK found \in Found : Rows!Drawn(Rows!SearchPoll(list, found))
        BY <1>10 DEF Rows!SearchDone
    <2> DEFINE q == Rows!SearchPoll(list, found)
    <2>3. RowsFor(q, stray, misclick) /\ q.clock = list.clock
        BY <1>1, <1>2, <2>1, PollKeepsRows
    <2> HIDE DEF q
    <2> QED BY <1>1, <1>2, <2>1, <2>2, <2>3, RowsAfter DEF q
<1>11. ASSUME NEW t \in Rows!Texts, Rows!Type(t) \/ Rows!ImeEdit(t) PROVE RowsPlain'
    <2> DEFINE inner(l) == [l EXCEPT !.text = t, !.dirty = TRUE]
               left == Rows!SubmenuClose(list)
    <2>1. /\ stray' = (stray \/ list.fade = "closing") /\ UNCHANGED misclick
          /\ strokes' \in 0..MaxStrokes /\ list.open
          /\ Rows!Drawn(inner(left)) \/ Rows!Drawn(inner(list))
        BY <1>4, <1>11 DEF Rows!Type, Rows!ImeEdit, Rows!QueryChanged
    <2>2. stray' \in BOOLEAN
        BY <2>1
    <2>3. SameSearch(list, left)
        BY <1>1 DEF Rows!SubmenuClose, Rows!Screens, SameSearch, RowList
    <2> HIDE DEF left
    <2>4. ASSUME NEW l, SameSearch(list, l)
          PROVE  RowsFor(inner(l), stray', misclick') /\ inner(l).clock = list.clock
        <3> DEFINE q == inner(l)
        <3>1. /\ q \in RowList /\ q.surface = list.surface /\ q.open /\ q.fade = list.fade
              /\ q.clock = list.clock /\ q.apps = list.apps /\ q.results = list.results
              /\ q.dirty
            BY <2>1, <2>4 DEF SameSearch, RowList
        <3> HIDE DEF q
        <3>2. RowsFor(q, stray', misclick')
            BY <1>1, <2>1, <3>1 DEF RowsFor, Live, Selects
        <3> QED BY <3>1, <3>2 DEF q
    <2>5. SameSearch(list, list)
        BY <1>1 DEF SameSearch
    <2> HIDE DEF inner
    <2>6. ASSUME NEW l, SameSearch(list, l), Rows!Drawn(inner(l)) PROVE RowsPlain'
        <3>1. RowsFor(inner(l), stray', misclick') /\ Quiet(inner(l).clock)
            BY <1>1, <2>4, <2>6
        <3> QED BY <1>2, <2>1, <2>2, <2>6, <3>1, RowsAfter
    <2> QED BY <2>1, <2>3, <2>5, <2>6
<1>12. ASSUME Rows!Key PROVE RowsPlain'
    <2>1. UNCHANGED <<stray, misclick>> /\ strokes' \in 0..MaxStrokes /\ list.open
        BY <1>4, <1>12 DEF Rows!Key
    <2>2. ASSUME NEW d, RowsFor(d, stray, misclick), d.clock = list.clock, Rows!Drawn(d)
          PROVE  RowsPlain'
        BY <1>1, <1>2, <2>1, <2>2, RowsAfter
    <2>3. ASSUME NEW delta \in {0, 2}, Rows!Drawn(Rows!Moved(list, delta)) PROVE RowsPlain'
        <3>1. /\ RowsFor(Rows!Moved(list, delta), stray, misclick)
              /\ Rows!Moved(list, delta).clock = list.clock
            BY <1>1, <1>2, <2>1, MoveKeepsRows
        <3> QED BY <2>2, <2>3, <3>1
    <2>4. CASE Rows!Drawn(Rows!LaunchSelected(list))
        <3>1. /\ RowsFor(Rows!LaunchSelected(list), stray, misclick)
              /\ Rows!LaunchSelected(list).clock = list.clock
            BY <1>1, <1>2, <2>1, LaunchKeepsRows
        <3> QED BY <2>2, <2>4, <3>1
    <2>5. CASE Rows!Drawn(Rows!Toggle(list))
        <3>1. RowsFor(Rows!Toggle(list), stray, misclick) /\ Rows!Toggle(list).clock = list.clock
            BY <1>1, <1>2, <2>1, CloseKeepsRows
        <3> QED BY <2>2, <2>5, <3>1
    <2>6. CASE Rows!Drawn(Rows!Back(list))
        <3>1. RowsFor(Rows!Back(list), stray, misclick) /\ Rows!Back(list).clock = list.clock
            BY <1>1, <1>2, <2>1, BackKeepsRows
        <3> QED BY <2>2, <2>6, <3>1
    <2> QED BY <1>12, <2>3, <2>4, <2>5, <2>6 DEF Rows!Key
<1>13. ASSUME Rows!Click PROVE RowsPlain'
    <2>1. UNCHANGED stray /\ strokes' \in 0..MaxStrokes /\ list.open
        BY <1>4, <1>13 DEF Rows!Click
    <2>2. ASSUME NEW at \in DOMAIN painted[1],
                 Rows!Drawn(Rows!LaunchSelected([list EXCEPT !.sel = at])),
                 misclick' = (misclick \/ at \notin DOMAIN Rows!Rows(list))
          PROVE  RowsPlain'
        <3> DEFINE l == [list EXCEPT !.sel = at]
        <3>1. at \in Nat
            <4>1. painted[1] \in Seq(Rows!Kinds)
                BY <1>1
            <4>2. DOMAIN painted[1] = 1..Len(painted[1]) /\ Len(painted[1]) \in Nat
                BY <4>1
            <4> QED BY <2>2, <4>2
        <3>2. misclick' \in BOOLEAN
            BY <2>2
        <3>3. /\ SameSearch(list, l) /\ l.sel = at /\ l.screen = list.screen
              /\ l.results = list.results /\ l.open
            BY <1>1, <2>1, <3>1 DEF SameSearch, RowList
        <3> HIDE DEF l
        <3>4. Rows!Rows(l) = Rows!Rows(list)
            BY <3>3 DEF Rows!Rows
        <3>5. misclick' \/ l.sel <= Len(Rows!Rows(l))
            <4>1. DOMAIN Rows!Rows(list) = 1..Len(Rows!Rows(list)) /\ Len(Rows!Rows(list)) \in Nat
                BY <1>1, RowsCounted
            <4>2. CASE at \in DOMAIN Rows!Rows(list)
                BY <3>1, <3>3, <3>4, <4>1, <4>2
            <4>3. CASE at \notin DOMAIN Rows!Rows(list)
                BY <2>2, <4>3, Zenon
            <4> QED BY <4>2, <4>3
        <3>6. RowsFor(l, stray, misclick')
            BY <1>1, <3>3, <3>5 DEF RowsFor, Live, Selects, SameSearch
        <3> DEFINE q == Rows!LaunchSelected(l)
        <3>7. RowsFor(q, stray, misclick') /\ q.clock = l.clock
            BY <1>2, <3>2, <3>3, <3>6, LaunchKeepsRows
        <3> HIDE DEF q
        <3>8. RowsFor(q, stray', misclick') /\ Quiet(q.clock) /\ Rows!Drawn(q)
            BY <1>1, <2>1, <2>2, <3>3, <3>7 DEF SameSearch, q, l
        <3> QED BY <1>2, <2>1, <3>2, <3>8, RowsAfter
    <2>3. CASE Rows!Drawn(Rows!Toggle(list)) /\ UNCHANGED misclick
        <3>1. RowsFor(Rows!Toggle(list), stray, misclick) /\ Rows!Toggle(list).clock = list.clock
            BY <1>1, <1>2, <2>1, CloseKeepsRows
        <3>2. /\ RowsFor(Rows!Toggle(list), stray', misclick')
              /\ Quiet(Rows!Toggle(list).clock)
            BY <1>1, <2>1, <2>3, <3>1
        <3> QED BY <1>2, <2>1, <2>3, <3>2, RowsAfter
    <2> QED BY <1>13, <2>2, <2>3 DEF Rows!Click
<1> QED BY <1>5, <1>6, <1>7, <1>8, <1>9, <1>10, <1>11, <1>12, <1>13 DEF Rows!Next

(* Rows that are live, and a list that settles, follow.                    *)
LEMMA RowsAreRight == RowsInv => Rows!ListSettles /\ Rows!RowsAreLive
<1>1. RowsInv => (list.open /\ list.clock.redraw => list.clock.callback = "committed")
    BY DEF RowsInv, Quiet, ClockOK, Clock, Callbacks
<1> QED BY <1>1 DEF RowsInv, Rows!ListSettles

-----------------------------------------------------------------------------
(* The captures of the overview: the proof.                                *)
Captures == [kept : BOOLEAN, inFlight : BOOLEAN]

(* An answer of the compositor ends the wait of one capture                *)
(* (capture_service.cpp, handle_ready and handle_failed).                  *)
LEMMA AnswerEndsWait ==
    ASSUME CapturesInv, NEW x \in Windows, Tiles!Ends(x), late' = late
    PROVE  CapturesInv'
<1> DEFINE c == [capture[x] EXCEPT !.inFlight = FALSE]
<1>1. c \in Captures /\ ~c.inFlight /\ c.kept = capture[x].kept
    BY DEF CapturesInv, Captures
<1>2. capture' = [capture EXCEPT ![x] = c]
    BY DEF Tiles!Ends
<1>3. frames' = [frames EXCEPT ![x] = "none"] /\ struck' = struck \ {x}
    BY DEF Tiles!Ends
<1> HIDE DEF c
<1> QED BY <1>1, <1>2, <1>3 DEF CapturesInv, Captures

(* A late answer leaves the captures alone, or strikes one of them.        *)
LEMMA LateStrikes ==
    ASSUME CapturesInv, NEW x \in Windows, Tiles!LateAnswer(x)
    PROVE  CapturesInv'
<1>1. late' \in [Windows -> Nat] /\ frames' = frames
    <2>1. late \in [Windows -> Nat] /\ late[x] - 1 \in Nat
        BY DEF CapturesInv, Tiles!LateAnswer
    <2> QED BY <2>1 DEF Tiles!LateAnswer
<1>2. CASE UNCHANGED <<capture, struck>>
    BY <1>1, <1>2 DEF CapturesInv
<1>3. ASSUME NEW y \in Windows, capture[y].kept,
             capture' = [capture EXCEPT ![y].inFlight = FALSE],
             struck' = IF frames[y] = "none" THEN struck ELSE struck \union {y}
      PROVE  CapturesInv'
    <2> DEFINE c == [capture[y] EXCEPT !.inFlight = FALSE]
    <2>1. c \in Captures /\ ~c.inFlight /\ c.kept = capture[y].kept
        BY DEF CapturesInv, Captures
    <2>2. capture' = [capture EXCEPT ![y] = c]
        BY <1>3
    <2> HIDE DEF c
    <2>3. CASE frames[y] = "none"
        <3>1. struck' = struck
            BY <1>3, <2>3
        <3> QED BY <1>1, <2>1, <2>2, <2>3, <3>1 DEF CapturesInv, Captures
    <2>4. CASE frames[y] # "none"
        <3>1. struck' = struck \union {y} /\ capture[y].kept
            BY <1>3, <2>4
        <3> QED BY <1>1, <2>1, <2>2, <2>4, <3>1 DEF CapturesInv, Captures
    <2> QED BY <2>3, <2>4
<1> QED BY <1>2, <1>3 DEF Tiles!LateAnswer

(* A frame asks for captures of tiles it shows, and forgets those of       *)
(* windows that are gone: the frames they waited for answer late           *)
(* (toplevel_export_request, toplevel_export_prune).                       *)
LEMMA PaintKeepsCaptures ==
    ASSUME CapturesInv, NEW S \in SUBSET Windows, Tiles!Paint(S)
    PROVE  CapturesInv'
<1> DEFINE asked0 == Tiles!Asked(capture, S)
           gone(x) == hypr.clients.at[x] = Tiles!Nowhere
           left == {x \in Windows : frames[x] # "none" /\ (x \in S \/ ~capture'[x].kept)}
<1>1. /\ capture' = Tiles!Pruned(asked0)
      /\ frames' = [x \in Windows |-> IF x \in S THEN "asked"
                                      ELSE IF x \in left THEN "none" ELSE frames[x]]
      /\ late' = [x \in Windows |-> IF x \in left THEN late[x] + 1 ELSE late[x]]
      /\ struck' = struck \ left
    BY DEF Tiles!Paint
<1>2. \A x \in S : ~gone(x)
    <2>1. \A x \in S : Tiles!Tiles(ov)[x] # Tiles!Nowhere
        BY DEF Tiles!Paint
    <2> QED BY <2>1 DEF Tiles!Tiles
<1>3. \A x \in Windows :
         /\ asked0[x] \in Captures
         /\ x \in S => asked0[x].kept /\ asked0[x].inFlight
         /\ x \notin S => asked0[x] = capture[x]
    BY DEF CapturesInv, Captures, Tiles!Asked
<1> HIDE DEF asked0
<1>4. \A x \in Windows : capture'[x] = IF gone(x) THEN Tiles!NoCapture ELSE asked0[x]
    BY <1>1 DEF Tiles!Pruned
<1>5. Tiles!NoCapture \in Captures /\ ~Tiles!NoCapture.inFlight /\ ~Tiles!NoCapture.kept
    BY DEF Tiles!NoCapture, Captures
<1> HIDE DEF gone
<1>6. \A x \in Windows : capture'[x] \in Captures
    BY <1>3, <1>4, <1>5
<1>7. capture' \in [Windows -> Captures]
    BY <1>1, <1>6 DEF Tiles!Pruned
<1>8. frames' \in [Windows -> {"none", "asked", "copying"}]
    BY <1>1 DEF CapturesInv
<1>9. late' \in [Windows -> Nat] /\ struck' \subseteq Windows
    BY <1>1 DEF CapturesInv
<1>10. \A x \in Windows : /\ x \in left <=> frames[x] # "none" /\ (x \in S \/ ~capture'[x].kept)
                          /\ x \in S => ~capture[x].inFlight
    BY DEF Tiles!Paint
<1> HIDE DEF left
<1>11. ASSUME NEW x \in Windows
       PROVE  /\ capture'[x].inFlight <=> frames'[x] # "none" /\ x \notin struck'
              /\ x \in struck' => frames'[x] # "none"
              /\ frames'[x] # "none" => capture'[x].kept
    <2>1. /\ capture[x].inFlight <=> frames[x] # "none" /\ x \notin struck
          /\ x \in struck => frames[x] # "none"
          /\ frames[x] # "none" => capture[x].kept
        BY DEF CapturesInv
    <2>2. CASE x \in S
        <3>1. capture'[x] = asked0[x]
            BY <1>2, <1>4, <2>2
        <3>2. x \notin struck'
            BY <1>1, <1>10, <2>1, <2>2
        <3> QED BY <1>1, <1>3, <2>2, <3>1, <3>2
    <2>3. CASE x \notin S /\ gone(x)
        <3>1. capture'[x] = Tiles!NoCapture
            BY <1>4, <2>3
        <3>2. frames'[x] = "none" /\ x \notin struck'
            BY <1>1, <1>5, <1>10, <2>1, <2>3, <3>1
        <3> QED BY <1>5, <3>1, <3>2
    <2>4. CASE x \notin S /\ ~gone(x)
        <3>1. capture'[x] = capture[x]
            BY <1>3, <1>4, <2>4
        <3>2. x \notin left
            BY <1>10, <2>1, <2>4, <3>1
        <3>3. frames'[x] = frames[x] /\ (x \in struck' <=> x \in struck)
            BY <1>1, <2>4, <3>2
        <3> QED BY <2>1, <3>1, <3>3
    <2> QED BY <2>2, <2>3, <2>4
<1> QED BY <1>7, <1>8, <1>9, <1>11 DEF CapturesInv, Captures

LEMMA CapturesInitially == Tiles!Init => CapturesInv
BY DEF Tiles!Init, Tiles!NoCapture, CapturesInv

LEMMA CapturesStep == CapturesInv /\ Tiles!Next => CapturesInv'
<1> SUFFICES ASSUME CapturesInv, Tiles!Next PROVE CapturesInv'
    OBVIOUS
<1>1. CASE UNCHANGED <<capture, frames, late, struck>>
    BY <1>1 DEF CapturesInv
<1>2. ASSUME NEW x \in Windows, Tiles!BufferDone(x) PROVE CapturesInv'
    <2>1. CASE frames' = [frames EXCEPT ![x] = "copying"] /\ UNCHANGED <<capture, struck>>
        <3>1. frames[x] = "asked" /\ late' = late
            BY <1>2 DEF Tiles!BufferDone
        <3> QED BY <2>1, <3>1 DEF CapturesInv
    <2>2. CASE Tiles!Ends(x)
        <3>1. late' = late
            BY <1>2 DEF Tiles!BufferDone
        <3> QED BY <2>2, <3>1, AnswerEndsWait
    <2> QED BY <1>2, <2>1, <2>2 DEF Tiles!BufferDone
<1>3. ASSUME NEW x \in Windows, Tiles!Ready(x) \/ Tiles!Failed(x) PROVE CapturesInv'
    <2>1. Tiles!Ends(x) /\ late' = late
        BY <1>3 DEF Tiles!Ready, Tiles!Failed
    <2> QED BY <2>1, AnswerEndsWait
<1>6. ASSUME NEW x \in Windows, Tiles!LateAnswer(x) PROVE CapturesInv'
    BY <1>6, LateStrikes
<1>4. ASSUME NEW S \in SUBSET Windows, Tiles!Paint(S) PROVE CapturesInv'
    BY <1>4, PaintKeepsCaptures
<1>5. ASSUME \/ Tiles!HyprlandStep \/ Tiles!Toggle \/ Tiles!ToggleEnds \/ Tiles!FadedOut
             \/ Tiles!CloseKey
             \/ \E w \in Tiles!Workspaces : Tiles!ClickCell(w) \/ Tiles!Key(w)
             \/ \E w \in Tiles!Workspaces \union {Tiles!Nowhere} : Tiles!Release(w)
             \/ \E x \in Windows : Tiles!PressTile(x)
      PROVE  CapturesInv'
    <2>1. UNCHANGED <<capture, frames, late, struck>>
        BY <1>5 DEF Tiles!HyprlandStep, Tiles!Toggle, Tiles!ToggleEnds, Tiles!FadedOut,
                    Tiles!CloseKey, Tiles!ClickCell, Tiles!Key, Tiles!Release,
                    Tiles!PressTile, Tiles!Acts, Tiles!OverviewOnly
    <2> QED BY <1>1, <2>1
<1> QED BY <1>2, <1>3, <1>4, <1>5, <1>6 DEF Tiles!Next

LEMMA CapturesAreRight == CapturesInv => Tiles!CapturesAnswered
<1> SUFFICES ASSUME CapturesInv, NEW x \in Windows
             PROVE  capture[x].inFlight = (frames[x] # "none" /\ x \notin struck)
    BY DEF Tiles!CapturesAnswered
<1>1. capture[x].inFlight \in BOOLEAN /\ (frames[x] # "none" /\ x \notin struck) \in BOOLEAN
    BY DEF CapturesInv
<1>2. capture[x].inFlight <=> frames[x] # "none" /\ x \notin struck
    BY DEF CapturesInv
<1> QED BY ONLY <1>1, <1>2, Zenon

-----------------------------------------------------------------------------
(* The copy of Hyprland: the proof.  Hyprland says in turn which monitor   *)
(* has the focus and which workspace a monitor shows, while the shell      *)
(* reads the whole state in three requests: a line may be older than the   *)
(* copy that it patches.  Orderly says what the queue of lines tells of    *)
(* the state of now, Arrives which copies end in that state once they have *)
(* the queue; both are kept by each line written, read or applied.         *)

\* Sequences that grow at the end and lose their first element.
LEMMA Grows ==
    ASSUME NEW S, NEW q \in Seq(S), NEW e \in S
    PROVE  LET t == Append(q, e)
           IN  /\ t \in Seq(S) /\ Len(q) \in Nat /\ Len(t) = Len(q) + 1
               /\ DOMAIN q = 1..Len(q) /\ DOMAIN t = 1..Len(t)
               /\ t[Len(q) + 1] = e /\ \A i \in 1..Len(q) : t[i] = q[i]
  OBVIOUS

LEMMA Shrinks ==
    ASSUME NEW S, NEW q \in Seq(S), q # <<>>
    PROVE  LET t == Tail(q)
           IN  /\ t \in Seq(S) /\ Len(q) \in Nat \ {0} /\ Len(t) = Len(q) - 1
               /\ DOMAIN q = 1..Len(q) /\ DOMAIN t = 1..Len(t)
               /\ Head(q) = q[1] /\ q[1] \in S /\ \A i \in 1..Len(t) : t[i] = q[i + 1]
  BY HeadTailProperties, EmptySeq

LEMMA Least ==
    ASSUME NEW S, S \subseteq Nat, S # {}
    PROVE  \E m \in S : \A k \in S : m <= k
<1>1. PICK m \in S : \A k \in S : ~(<<k, m>> \in OpToRel(<, Nat))
  BY NatLessThanWellFounded, WFMin
<1>2. \A k \in S : ~(k < m)
  BY <1>1 DEF OpToRel
<1> QED
  BY <1>2

\* A line names the monitor it is about.
Wire ==
    {l \in [ev : {"mon", "ws", "window"}, m : Tiles!Monitors \union {0},
            w : Tiles!Workspaces \union {0}] :
        IF l.ev = "window" THEN l.m = 0 ELSE l.m \in Tiles!Monitors /\ l.w \in Tiles!Workspaces}
IsMon(l) == l.ev = "mon"
IsWs(l) == l.ev = "ws"
NoMonAfter(q, i) == \A j \in 1..Len(q) : j > i => ~IsMon(q[j])
NoMonBefore(q, i) == \A j \in 1..Len(q) : j < i => ~IsMon(q[j])
NoMonBetween(q, i, j) == \A k \in 1..Len(q) : i < k /\ k < j => ~IsMon(q[k])
LastAbout(q, i) == \A j \in 1..Len(q) : j > i => q[j].m # q[i].m
NoMonTo(q, m) == \A i \in 1..Len(q) : IsMon(q[i]) => q[i].m # m
Leads(q, i) == IsWs(q[i]) /\ NoMonBefore(q, i)

\* What follows the last monitor line is about monitor f, a workspace line is
\* about the monitor focused before it, and the last line about a monitor is right.
Orderly(q, f, A) ==
    /\ \A i \in 1..Len(q) : q[i].ev # "window" /\ NoMonAfter(q, i) => q[i].m = f
    /\ \A i, j \in 1..Len(q) : i < j /\ IsMon(q[i]) /\ IsWs(q[j]) /\ NoMonBetween(q, i, j)
                                 => q[j].m = q[i].m
    /\ \A i \in 1..Len(q) : q[i].ev # "window" /\ LastAbout(q, i) => q[i].w = A[q[i].m]

\* A copy with the focus g and the active workspaces b will be right once it has
\* the lines q: a monitor without a monitor line to come is right now, or will be
\* by the workspace lines that come first.
Leading(q) == \E i \in 1..Len(q) : Leads(q, i)
Arrives(q, g, b, f, A) ==
    /\ NoMonBefore(q, Len(q) + 1) => g = f
    /\ \A m \in Tiles!Monitors : NoMonTo(q, m) =>
          /\ m = g => \A i \in 1..Len(q) : Leads(q, i) => q[i].m = m
          /\ m # g \/ ~Leading(q) => b[m] = A[m]

\* The monitor line nearest before j.
LEMMA NearestMon ==
    ASSUME NEW q \in Seq(Wire), NEW j \in Nat, NEW k \in 1..Len(q), k < j, IsMon(q[k])
    PROVE  \E i \in 1..Len(q) : i < j /\ k <= i /\ IsMon(q[i]) /\ NoMonBetween(q, i, j)
<1> DEFINE S == {d \in Nat : \E i \in 1..Len(q) : k <= i /\ i < j /\ IsMon(q[i]) /\ d = j - i}
<1>1. Len(q) \in Nat
  OBVIOUS
<1>2. j - k \in S
  BY <1>1
<1>3. PICK d \in S : \A e \in S : d <= e
  BY <1>2, Least
<1>4. PICK i \in 1..Len(q) : k <= i /\ i < j /\ IsMon(q[i]) /\ d = j - i
  BY <1>3
<1>5. NoMonBetween(q, i, j)
  <2> SUFFICES ASSUME NEW n \in 1..Len(q), i < n, n < j, IsMon(q[n]) PROVE FALSE
    BY DEF NoMonBetween
  <2>1. j - n \in S
    BY <1>1, <1>4
  <2>2. d <= j - n
    BY <1>3, <2>1
  <2> QED
    BY <1>1, <1>4, <2>2
<1> QED
  BY <1>4, <1>5

\* Without a monitor line to the focused monitor there is none at all.
LEMMA NoMonAtAll ==
    ASSUME NEW q \in Seq(Wire), NEW f, NEW A, Orderly(q, f, A), NoMonTo(q, f)
    PROVE  NoMonBefore(q, Len(q) + 1)
<1>1. Len(q) \in Nat
  OBVIOUS
<1> SUFFICES ASSUME NEW k \in 1..Len(q), IsMon(q[k]) PROVE FALSE
  BY DEF NoMonBefore
<1>2. Len(q) + 1 \in Nat /\ k < Len(q) + 1
  BY <1>1
<1>3. PICK i \in 1..Len(q) : IsMon(q[i]) /\ NoMonBetween(q, i, Len(q) + 1)
  BY <1>2, NearestMon
<1>4. NoMonAfter(q, i)
  BY <1>1, <1>3 DEF NoMonAfter, NoMonBetween
<1>5. q[i].m = f
  BY <1>3, <1>4 DEF Orderly, IsMon
<1> QED
  BY <1>3, <1>5 DEF NoMonTo

\* A monitor line.
LEMMA OrderlyMon ==
    ASSUME NEW q \in Seq(Wire), NEW f, NEW A, Orderly(q, f, A), NEW l \in Wire, IsMon(l), l.w = A[l.m]
    PROVE  Orderly(Append(q, l), l.m, A)
<1> DEFINE t == Append(q, l)
<1>1. /\ t \in Seq(Wire) /\ Len(q) \in Nat /\ Len(t) = Len(q) + 1
      /\ t[Len(q) + 1] = l /\ \A i \in 1..Len(q) : t[i] = q[i]
  BY Grows
<1> HIDE DEF t
<1>2. /\ Len(t) \in 1..Len(t) /\ \A i \in 1..Len(q) : i \in 1..Len(t) /\ Len(t) > i
      /\ \A i \in 1..Len(t) : i # Len(t) => i \in 1..Len(q)
  BY <1>1
<1>3. ASSUME NEW i \in 1..Len(t), t[i].ev # "window", NoMonAfter(t, i) PROVE t[i].m = l.m
  <2>1. i = Len(t)
    BY <1>1, <1>2, <1>3 DEF NoMonAfter
  <2> QED
    BY <1>1, <2>1
<1>4. ASSUME NEW i \in 1..Len(t), NEW j \in 1..Len(t), i < j, IsMon(t[i]), IsWs(t[j]), NoMonBetween(t, i, j)
      PROVE  t[j].m = t[i].m
  <2>1. j # Len(t)
    BY <1>1, <1>4 DEF IsMon, IsWs
  <2>2. i \in 1..Len(q) /\ j \in 1..Len(q)
    BY <1>1, <1>4, <2>1
  <2>3. NoMonBetween(q, i, j)
    BY <1>1, <1>2, <1>4 DEF NoMonBetween
  <2> QED
    BY <1>1, <1>4, <2>2, <2>3 DEF Orderly
<1>5. ASSUME NEW i \in 1..Len(t), t[i].ev # "window", LastAbout(t, i) PROVE t[i].w = A[t[i].m]
  <2>1. CASE i = Len(t)
    BY <1>1, <2>1
  <2>2. CASE i # Len(t)
    <3>1. i \in 1..Len(q) /\ LastAbout(q, i)
      BY <1>1, <1>2, <1>5, <2>2 DEF LastAbout
    <3> QED
      BY <1>1, <1>5, <3>1 DEF Orderly
  <2> QED
    BY <2>1, <2>2
<1> QED
  BY <1>3, <1>4, <1>5 DEF Orderly, t

\* A workspace line of the focused monitor.
LEMMA OrderlyWs ==
    ASSUME NEW q \in Seq(Wire), NEW f, NEW A, Orderly(q, f, A), NEW l \in Wire, IsWs(l), l.m = f,
           NEW B, B[f] = l.w, \A m \in Tiles!Monitors : m # f => B[m] = A[m]
    PROVE  Orderly(Append(q, l), f, B)
<1> DEFINE t == Append(q, l)
<1>1. /\ t \in Seq(Wire) /\ Len(q) \in Nat /\ Len(t) = Len(q) + 1
      /\ t[Len(q) + 1] = l /\ \A i \in 1..Len(q) : t[i] = q[i] /\ q[i] \in Wire
  BY Grows
<1> HIDE DEF t
<1>2. /\ Len(t) \in 1..Len(t) /\ \A i \in 1..Len(q) : i \in 1..Len(t) /\ Len(t) > i
      /\ \A i \in 1..Len(t) : i # Len(t) => i \in 1..Len(q)
  BY <1>1
<1>3. ASSUME NEW i \in 1..Len(t), t[i].ev # "window", NoMonAfter(t, i) PROVE t[i].m = f
  <2>1. CASE i = Len(t)
    BY <1>1, <2>1
  <2>2. CASE i # Len(t)
    <3>1. i \in 1..Len(q) /\ NoMonAfter(q, i)
      BY <1>1, <1>2, <1>3, <2>2 DEF NoMonAfter
    <3> QED
      BY <1>1, <1>3, <3>1 DEF Orderly
  <2> QED
    BY <2>1, <2>2
<1>4. ASSUME NEW i \in 1..Len(t), NEW j \in 1..Len(t), i < j, IsMon(t[i]), IsWs(t[j]), NoMonBetween(t, i, j)
      PROVE  t[j].m = t[i].m
  <2>1. i \in 1..Len(q)
    BY <1>1, <1>4
  <2>2. CASE j = Len(t)
    <3>1. NoMonAfter(q, i)
      BY <1>1, <1>2, <1>4, <2>2 DEF NoMonAfter, NoMonBetween
    <3> QED
      BY <1>1, <1>4, <2>1, <2>2, <3>1 DEF Orderly, IsMon
  <2>3. CASE j # Len(t)
    <3>1. j \in 1..Len(q) /\ NoMonBetween(q, i, j)
      BY <1>1, <1>2, <1>4, <2>3 DEF NoMonBetween
    <3> QED
      BY <1>1, <1>4, <2>1, <3>1 DEF Orderly
  <2> QED
    BY <2>2, <2>3
<1>5. ASSUME NEW i \in 1..Len(t), t[i].ev # "window", LastAbout(t, i) PROVE t[i].w = B[t[i].m]
  <2>1. CASE i = Len(t)
    BY <1>1, <2>1
  <2>2. CASE i # Len(t)
    <3>1. i \in 1..Len(q) /\ LastAbout(q, i) /\ t[i].m # f
      BY <1>1, <1>2, <1>5, <2>2 DEF LastAbout
    <3>2. q[i].w = A[q[i].m]
      BY <1>1, <1>5, <3>1 DEF Orderly
    <3>3. q[i].m \in Tiles!Monitors
      BY <1>1, <1>5, <3>1 DEF Wire
    <3> QED
      BY <1>1, <3>1, <3>2, <3>3
  <2> QED
    BY <2>1, <2>2
<1> QED
  BY <1>3, <1>4, <1>5 DEF Orderly, t

\* A line about a window.
LEMMA OrderlyWindow ==
    ASSUME NEW q \in Seq(Wire), NEW f \in Tiles!Monitors, NEW A, Orderly(q, f, A),
           NEW l \in Wire, l.ev = "window"
    PROVE  Orderly(Append(q, l), f, A)
<1> DEFINE t == Append(q, l)
<1>1. /\ t \in Seq(Wire) /\ Len(q) \in Nat /\ Len(t) = Len(q) + 1
      /\ t[Len(q) + 1] = l /\ \A i \in 1..Len(q) : t[i] = q[i] /\ q[i] \in Wire
  BY Grows
<1> HIDE DEF t
<1>2. /\ Len(t) \in 1..Len(t) /\ \A i \in 1..Len(q) : i \in 1..Len(t) /\ Len(t) > i
      /\ \A i \in 1..Len(t) : i # Len(t) => i \in 1..Len(q)
      /\ \A i \in 1..Len(t) : t[i].ev # "window" => i # Len(t)
  BY <1>1
<1>3. ASSUME NEW i \in 1..Len(t), t[i].ev # "window", NoMonAfter(t, i) PROVE t[i].m = f
  <2>1. i \in 1..Len(q) /\ NoMonAfter(q, i)
    BY <1>1, <1>2, <1>3 DEF NoMonAfter
  <2> QED
    BY <1>1, <1>3, <2>1 DEF Orderly
<1>4. ASSUME NEW i \in 1..Len(t), NEW j \in 1..Len(t), i < j, IsMon(t[i]), IsWs(t[j]), NoMonBetween(t, i, j)
      PROVE  t[j].m = t[i].m
  <2>1. i \in 1..Len(q) /\ j \in 1..Len(q)
    BY <1>2, <1>4 DEF IsMon, IsWs
  <2>2. NoMonBetween(q, i, j)
    BY <1>1, <1>2, <1>4 DEF NoMonBetween
  <2> QED
    BY <1>1, <1>4, <2>1, <2>2 DEF Orderly
<1>5. ASSUME NEW i \in 1..Len(t), t[i].ev # "window", LastAbout(t, i) PROVE t[i].w = A[t[i].m]
  <2>1. i \in 1..Len(q) /\ LastAbout(q, i)
    BY <1>1, <1>2, <1>5 DEF LastAbout
  <2> QED
    BY <1>1, <1>5, <2>1 DEF Orderly
<1> QED
  BY <1>3, <1>4, <1>5 DEF Orderly, t

\* The lines that are left are in order.
LEMMA OrderlyTail ==
    ASSUME NEW q \in Seq(Wire), q # <<>>, NEW f, NEW A, Orderly(q, f, A)
    PROVE  Orderly(Tail(q), f, A)
<1> DEFINE t == Tail(q)
<1>1. /\ Len(q) \in Nat \ {0} /\ Len(t) = Len(q) - 1 /\ \A i \in 1..Len(t) : t[i] = q[i + 1]
  BY Shrinks
<1> HIDE DEF t
<1>2. \A i \in 1..Len(t) : i + 1 \in 1..Len(q)
  BY <1>1
<1>3. ASSUME NEW j \in 1..Len(q), j # 1 PROVE j - 1 \in 1..Len(t) /\ t[j - 1] = q[j] /\ j - 1 + 1 = j
  <2>1. j - 1 \in 1..Len(t) /\ j - 1 + 1 = j
    BY <1>1, <1>3
  <2> QED
    BY <1>1, <2>1
<1>4. ASSUME NEW i \in 1..Len(t), t[i].ev # "window", NoMonAfter(t, i) PROVE t[i].m = f
  <2>1. NoMonAfter(q, i + 1)
    <3> SUFFICES ASSUME NEW j \in 1..Len(q), j > i + 1 PROVE ~IsMon(q[j])
      BY DEF NoMonAfter
    <3>1. j # 1 /\ j - 1 > i
      BY <1>1
    <3> QED
      BY <1>3, <1>4, <3>1 DEF NoMonAfter
  <2> QED
    BY <1>1, <1>2, <1>4, <2>1 DEF Orderly
<1>5. ASSUME NEW i \in 1..Len(t), NEW j \in 1..Len(t), i < j, IsMon(t[i]), IsWs(t[j]), NoMonBetween(t, i, j)
      PROVE  t[j].m = t[i].m
  <2>1. NoMonBetween(q, i + 1, j + 1)
    <3> SUFFICES ASSUME NEW k \in 1..Len(q), i + 1 < k, k < j + 1 PROVE ~IsMon(q[k])
      BY DEF NoMonBetween
    <3>1. k # 1 /\ k - 1 > i /\ k - 1 < j
      BY <1>1
    <3> QED
      BY <1>3, <1>5, <3>1 DEF NoMonBetween
  <2>2. i + 1 < j + 1
    BY <1>1, <1>5
  <2> QED
    BY <1>1, <1>2, <1>5, <2>1, <2>2 DEF Orderly
<1>6. ASSUME NEW i \in 1..Len(t), t[i].ev # "window", LastAbout(t, i) PROVE t[i].w = A[t[i].m]
  <2>1. LastAbout(q, i + 1)
    <3> SUFFICES ASSUME NEW j \in 1..Len(q), j > i + 1 PROVE q[j].m # q[i + 1].m
      BY DEF LastAbout
    <3>1. j # 1 /\ j - 1 > i
      BY <1>1
    <3> QED
      BY <1>1, <1>3, <1>6, <3>1 DEF LastAbout
  <2> QED
    BY <1>1, <1>2, <1>6, <2>1 DEF Orderly
<1> QED
  BY <1>4, <1>5, <1>6 DEF Orderly, t

\* What has just been read is right, whatever lines are older than it.
LEMMA ArrivesRead ==
    ASSUME NEW q \in Seq(Wire), NEW f, NEW A, Orderly(q, f, A)
    PROVE  Arrives(q, f, A, f, A)
<1> SUFFICES ASSUME NoMonTo(q, f), NEW i \in 1..Len(q), Leads(q, i) PROVE q[i].m = f
  BY DEF Arrives
<1>1. NoMonBefore(q, Len(q) + 1) /\ Len(q) \in Nat
  BY NoMonAtAll
<1>2. NoMonAfter(q, i)
  BY <1>1 DEF NoMonAfter, NoMonBefore
<1> QED
  BY <1>2 DEF Orderly, Leads, IsWs

\* Lines that lead stay so at the end of a queue that grows.
LEMMA LeadsAppend ==
    ASSUME NEW q \in Seq(Wire), NEW l \in Wire
    PROVE  LET t == Append(q, l)
           IN  /\ Len(t) = Len(q) + 1 /\ Len(q) \in Nat /\ t[Len(t)] = l
               /\ \A i \in 1..Len(q) : t[i] = q[i] /\ i \in 1..Len(t)
               /\ \A i \in 1..Len(t) : i # Len(t) => i \in 1..Len(q)
               /\ \A i \in 1..Len(q) : Leads(t, i) <=> Leads(q, i)
               /\ Leads(t, Len(t)) <=> IsWs(l) /\ NoMonBefore(q, Len(q) + 1)
               /\ \A m : NoMonTo(t, m) <=> NoMonTo(q, m) /\ (IsMon(l) => l.m # m)
               /\ NoMonBefore(t, Len(t) + 1) <=> NoMonBefore(q, Len(q) + 1) /\ ~IsMon(l)
<1> DEFINE t == Append(q, l)
<1>1. /\ t \in Seq(Wire) /\ Len(q) \in Nat /\ Len(t) = Len(q) + 1
      /\ t[Len(q) + 1] = l /\ \A i \in 1..Len(q) : t[i] = q[i]
  BY Grows
<1> HIDE DEF t
<1>2. /\ Len(t) \in 1..Len(t) /\ \A i \in 1..Len(q) : i \in 1..Len(t) /\ Len(t) > i
      /\ \A i \in 1..Len(t) : i # Len(t) => i \in 1..Len(q)
  BY <1>1
<1>3. ASSUME NEW i \in 1..Len(q) PROVE Leads(t, i) <=> Leads(q, i)
  <2>1. NoMonBefore(t, i) <=> NoMonBefore(q, i)
    <3>1. ASSUME NoMonBefore(q, i), NEW j \in 1..Len(t), j < i PROVE ~IsMon(t[j])
      <4>1. j \in 1..Len(q)
        BY <1>1, <3>1
      <4> QED
        BY <1>1, <3>1, <4>1 DEF NoMonBefore
    <3>2. ASSUME NoMonBefore(t, i), NEW j \in 1..Len(q), j < i PROVE ~IsMon(q[j])
      BY <1>1, <1>2, <3>2 DEF NoMonBefore
    <3> QED
      BY <3>1, <3>2 DEF NoMonBefore
  <2> QED
    BY <1>1, <2>1 DEF Leads
<1>4. NoMonBefore(t, Len(t)) <=> NoMonBefore(q, Len(q) + 1)
  <2>1. ASSUME NoMonBefore(q, Len(q) + 1), NEW j \in 1..Len(t), j < Len(t) PROVE ~IsMon(t[j])
    <3>1. j \in 1..Len(q) /\ j < Len(q) + 1
      BY <1>1, <2>1
    <3> QED
      BY <1>1, <2>1, <3>1 DEF NoMonBefore
  <2>2. ASSUME NoMonBefore(t, Len(t)), NEW j \in 1..Len(q) PROVE ~IsMon(q[j])
    <3>1. j \in 1..Len(t) /\ j < Len(t)
      BY <1>1
    <3> QED
      BY <1>1, <2>2, <3>1 DEF NoMonBefore
  <2> QED
    BY <2>1, <2>2 DEF NoMonBefore
<1>5. ASSUME NEW m PROVE NoMonTo(t, m) <=> NoMonTo(q, m) /\ (IsMon(l) => l.m # m)
  BY <1>1, <1>2 DEF NoMonTo
<1>6. NoMonBefore(t, Len(t) + 1) <=> NoMonBefore(t, Len(t)) /\ ~IsMon(l)
  <2>1. ASSUME NoMonBefore(t, Len(t)), ~IsMon(l), NEW j \in 1..Len(t) PROVE ~IsMon(t[j])
    <3>1. j = Len(t) \/ j < Len(t)
      BY <1>1
    <3> QED
      BY <1>1, <2>1, <3>1 DEF NoMonBefore
  <2>2. ASSUME NoMonBefore(t, Len(t) + 1) PROVE NoMonBefore(t, Len(t)) /\ ~IsMon(l)
    <3>1. Len(t) < Len(t) + 1 /\ \A j \in 1..Len(t) : j < Len(t) => j < Len(t) + 1
      BY <1>1
    <3> QED
      BY <1>1, <1>2, <2>2, <3>1 DEF NoMonBefore
  <2> QED
    BY <2>1, <2>2 DEF NoMonBefore
<1>7. Leads(t, Len(t)) <=> IsWs(l) /\ NoMonBefore(q, Len(q) + 1)
  BY <1>1, <1>4 DEF Leads
<1> QED
  BY <1>1, <1>2, <1>3, <1>4, <1>5, <1>6, <1>7 DEF t

\* A monitor line tells the focus and what is active there.
LEMMA ArrivesMon ==
    ASSUME NEW q \in Seq(Wire), NEW g, NEW b, NEW f, NEW A, Arrives(q, g, b, f, A),
           NEW l \in Wire, IsMon(l)
    PROVE  Arrives(Append(q, l), g, b, l.m, A)
<1> DEFINE t == Append(q, l)
<1>1. /\ \A i \in 1..Len(q) : t[i] = q[i] /\ i \in 1..Len(t)
      /\ \A i \in 1..Len(t) : i # Len(t) => i \in 1..Len(q)
      /\ \A i \in 1..Len(q) : Leads(t, i) <=> Leads(q, i)
      /\ ~Leads(t, Len(t))
      /\ \A m : NoMonTo(t, m) => NoMonTo(q, m)
      /\ ~NoMonBefore(t, Len(t) + 1)
  BY LeadsAppend DEF IsMon, IsWs
<1> HIDE DEF t
<1>2. \A i \in 1..Len(t) : Leads(t, i) => i \in 1..Len(q) /\ Leads(q, i)
  BY <1>1
<1>3. Leading(t) <=> Leading(q)
  BY <1>1, <1>2 DEF Leading
<1> QED
  BY <1>1, <1>2, <1>3 DEF Arrives, t

\* A workspace line of the focused monitor.
LEMMA ArrivesWs ==
    ASSUME NEW q \in Seq(Wire), NEW g, NEW b, NEW f, NEW A, Orderly(q, f, A), Arrives(q, g, b, f, A),
           NEW l \in Wire, IsWs(l), l.m = f, NEW B, \A m \in Tiles!Monitors : m # f => B[m] = A[m]
    PROVE  Arrives(Append(q, l), g, b, f, B)
<1> DEFINE t == Append(q, l)
<1>1. /\ \A i \in 1..Len(q) : t[i] = q[i] /\ i \in 1..Len(t)
      /\ \A i \in 1..Len(t) : i # Len(t) => i \in 1..Len(q)
      /\ \A i \in 1..Len(q) : Leads(t, i) <=> Leads(q, i)
      /\ Leads(t, Len(t)) <=> NoMonBefore(q, Len(q) + 1)
      /\ t[Len(t)] = l /\ Len(t) = Len(q) + 1 /\ Len(q) \in Nat
      /\ \A m : NoMonTo(t, m) <=> NoMonTo(q, m)
      /\ NoMonBefore(t, Len(t) + 1) <=> NoMonBefore(q, Len(q) + 1)
  BY LeadsAppend DEF IsMon, IsWs
<1> HIDE DEF t
<1>2. NoMonBefore(t, Len(t) + 1) => g = f
  BY <1>1 DEF Arrives
<1>3. Leading(q) => Leading(t)
  BY <1>1 DEF Leading
<1>4. ASSUME NEW m \in Tiles!Monitors, NoMonTo(t, m), m # f
      PROVE  /\ m = g => \A i \in 1..Len(t) : Leads(t, i) => t[i].m = m
             /\ m # g \/ ~Leading(t) => b[m] = B[m]
  <2>1. m = g => ~NoMonBefore(q, Len(q) + 1)
    BY <1>4 DEF Arrives
  <2>2. m = g => \A i \in 1..Len(t) : Leads(t, i) => t[i].m = m
    BY <1>1, <1>4, <2>1 DEF Arrives
  <2>3. m # g \/ ~Leading(t) => b[m] = A[m]
    BY <1>1, <1>3, <1>4 DEF Arrives
  <2> QED
    BY <1>4, <2>2, <2>3
<1>5. ASSUME NEW m \in Tiles!Monitors, NoMonTo(t, m), m = f
      PROVE  /\ m = g => \A i \in 1..Len(t) : Leads(t, i) => t[i].m = m
             /\ m # g \/ ~Leading(t) => b[m] = B[m]
  <2>1. NoMonBefore(q, Len(q) + 1)
    BY <1>1, <1>5, NoMonAtAll
  <2>2. m = g /\ Leading(t)
    <3>1. Len(t) \in 1..Len(t)
      BY <1>1
    <3> QED
      BY <1>1, <1>5, <2>1, <3>1 DEF Arrives, Leading
  <2>3. \A i \in 1..Len(t) : Leads(t, i) => t[i].m = m
    BY <1>1, <1>5, <2>2 DEF Arrives
  <2> QED
    BY <2>2, <2>3
<1> QED
  BY <1>2, <1>4, <1>5 DEF Arrives, t

\* A line about a window.
LEMMA ArrivesWindow ==
    ASSUME NEW q \in Seq(Wire), NEW g, NEW b, NEW f, NEW A, Arrives(q, g, b, f, A),
           NEW l \in Wire, l.ev = "window"
    PROVE  Arrives(Append(q, l), g, b, f, A)
<1> DEFINE t == Append(q, l)
<1>1. /\ \A i \in 1..Len(q) : t[i] = q[i] /\ i \in 1..Len(t)
      /\ \A i \in 1..Len(t) : i # Len(t) => i \in 1..Len(q)
      /\ \A i \in 1..Len(q) : Leads(t, i) <=> Leads(q, i)
      /\ ~Leads(t, Len(t))
      /\ \A m : NoMonTo(t, m) <=> NoMonTo(q, m)
      /\ NoMonBefore(t, Len(t) + 1) <=> NoMonBefore(q, Len(q) + 1)
  BY LeadsAppend DEF IsMon, IsWs
<1> HIDE DEF t
<1>2. \A i \in 1..Len(t) : Leads(t, i) => i \in 1..Len(q) /\ Leads(q, i)
  BY <1>1
<1>3. Leading(t) <=> Leading(q)
  BY <1>1, <1>2 DEF Leading
<1> QED
  BY <1>1, <1>2, <1>3 DEF Arrives, t

\* What a line leaves to come.
LEMMA LeadsTail ==
    ASSUME NEW q \in Seq(Wire), q # <<>>
    PROVE  LET t == Tail(q)
           IN  /\ Len(q) \in Nat \ {0} /\ Len(t) = Len(q) - 1 /\ Head(q) = q[1] /\ q[1] \in Wire
               /\ 1 \in 1..Len(q)
               /\ \A i \in 1..Len(t) : t[i] = q[i + 1] /\ i + 1 \in 1..Len(q) /\ i + 1 > 1
               /\ \A j \in 1..Len(q) : j # 1 => j - 1 \in 1..Len(t) /\ t[j - 1] = q[j] /\ j - 1 + 1 = j
               /\ \A m : NoMonTo(q, m) <=> NoMonTo(t, m) /\ (IsMon(q[1]) => q[1].m # m)
               /\ NoMonBefore(q, Len(q) + 1) <=> NoMonBefore(t, Len(t) + 1) /\ ~IsMon(q[1])
               /\ \A i \in 1..Len(t) : Leads(q, i + 1) <=> Leads(t, i) /\ ~IsMon(q[1])
<1> DEFINE t == Tail(q)
<1>1. /\ Len(q) \in Nat \ {0} /\ Len(t) = Len(q) - 1 /\ \A i \in 1..Len(t) : t[i] = q[i + 1]
      /\ Head(q) = q[1] /\ q[1] \in Wire
  BY Shrinks
<1> HIDE DEF t
<1>2. /\ \A i \in 1..Len(t) : i + 1 \in 1..Len(q) /\ i + 1 > 1
      /\ 1 \in 1..Len(q)
  BY <1>1
<1>3. ASSUME NEW j \in 1..Len(q), j # 1 PROVE j - 1 \in 1..Len(t) /\ t[j - 1] = q[j] /\ j - 1 + 1 = j
  <2>1. j - 1 \in 1..Len(t) /\ j - 1 + 1 = j
    BY <1>1, <1>3
  <2> QED
    BY <1>1, <2>1
<1>4. ASSUME NEW m PROVE NoMonTo(q, m) <=> NoMonTo(t, m) /\ (IsMon(q[1]) => q[1].m # m)
  <2>1. ASSUME NoMonTo(q, m) PROVE NoMonTo(t, m) /\ (IsMon(q[1]) => q[1].m # m)
    BY <1>1, <1>2, <2>1 DEF NoMonTo
  <2>2. ASSUME NoMonTo(t, m), IsMon(q[1]) => q[1].m # m, NEW j \in 1..Len(q), IsMon(q[j]) PROVE q[j].m # m
    BY <1>3, <2>2 DEF NoMonTo
  <2> QED
    BY <2>1, <2>2 DEF NoMonTo
<1>5. ASSUME NEW i \in 1..(Len(t) + 1) PROVE NoMonBefore(q, i + 1) <=> NoMonBefore(t, i) /\ ~IsMon(q[1])
  <2>1. ASSUME NoMonBefore(q, i + 1) PROVE NoMonBefore(t, i) /\ ~IsMon(q[1])
    <3>1. 1 < i + 1 /\ \A j \in 1..Len(t) : j < i => j + 1 < i + 1
      BY <1>1
    <3> QED
      BY <1>1, <1>2, <2>1, <3>1 DEF NoMonBefore
  <2>2. ASSUME NoMonBefore(t, i), ~IsMon(q[1]), NEW j \in 1..Len(q), j < i + 1 PROVE ~IsMon(q[j])
    <3>1. j # 1 => j - 1 < i
      BY <1>1, <2>2
    <3> QED
      BY <1>3, <2>2, <3>1 DEF NoMonBefore
  <2> QED
    BY <2>1, <2>2 DEF NoMonBefore
<1>6. NoMonBefore(q, Len(q) + 1) <=> NoMonBefore(t, Len(t) + 1) /\ ~IsMon(q[1])
  <2>1. Len(t) + 1 \in 1..(Len(t) + 1) /\ Len(t) + 1 + 1 = Len(q) + 1
    BY <1>1
  <2> QED
    BY <1>5, <2>1
<1>7. ASSUME NEW i \in 1..Len(t) PROVE Leads(q, i + 1) <=> Leads(t, i) /\ ~IsMon(q[1])
  <2>1. i \in 1..(Len(t) + 1)
    BY <1>1
  <2> QED
    BY <1>1, <1>5, <2>1 DEF Leads
<1> QED
  BY <1>1, <1>2, <1>3, <1>4, <1>6, <1>7 DEF t

\* What a line makes of the focus and of the active workspaces of the copy.
Focused(l, g) == IF IsMon(l) THEN l.m ELSE g
Active(l, g, b) == IF IsMon(l) THEN [b EXCEPT ![l.m] = l.w]
                   ELSE IF IsWs(l) THEN [b EXCEPT ![g] = l.w] ELSE b

\* If no monitor line follows to m, and none of the lines that lead what follows,
\* the first line is the last about m.
LEMMA HeadIsLast ==
    ASSUME NEW q \in Seq(Wire), q # <<>>, NEW f, NEW A, Orderly(q, f, A),
           NEW m \in Tiles!Monitors, NoMonTo(Tail(q), m), ~Leading(Tail(q)), q[1].m = m
    PROVE  LastAbout(q, 1)
<1> DEFINE t == Tail(q)
<1>1. /\ t \in Seq(Wire) /\ Len(t) \in Nat
      /\ \A j \in 1..Len(q) : j # 1 => j - 1 \in 1..Len(t) /\ t[j - 1] = q[j]
      /\ Len(q) \in Nat
  BY LeadsTail, Shrinks
<1>2. Orderly(t, f, A) /\ NoMonTo(t, m) /\ ~Leading(t)
  BY OrderlyTail
<1> HIDE DEF t
<1>3. ASSUME NEW j \in 1..Len(t), t[j].m = m PROVE FALSE
  <2>1. t[j] \in Wire /\ t[j].m # 0 /\ ~IsMon(t[j])
    <3>1. m # 0
      BY DEF Tiles!Monitors
    <3> QED
      BY <1>1, <1>2, <1>3, <3>1 DEF NoMonTo
  <2>2. IsWs(t[j])
    BY <2>1 DEF Wire, IsMon, IsWs
  <2>3. PICK k \in 1..Len(t) : k < j /\ IsMon(t[k])
    BY <1>2, <2>2 DEF Leading, Leads, NoMonBefore
  <2>4. PICK i \in 1..Len(t) : i < j /\ IsMon(t[i]) /\ NoMonBetween(t, i, j)
    <3>1. j \in Nat
      BY <1>1
    <3> QED
      BY <1>1, <2>3, <3>1, NearestMon
  <2>5. t[i].m = m
    BY <1>2, <1>3, <2>2, <2>4 DEF Orderly
  <2> QED
    BY <1>2, <2>4, <2>5 DEF NoMonTo
<1> QED
  BY <1>1, <1>3 DEF LastAbout

\* The copy that has taken a line still becomes right.
LEMMA ArrivesTail ==
    ASSUME NEW q \in Seq(Wire), q # <<>>, NEW g \in Tiles!Monitors, NEW b \in [Tiles!Monitors -> Int],
           NEW f, NEW A, Orderly(q, f, A), Arrives(q, g, b, f, A)
    PROVE  Arrives(Tail(q), Focused(Head(q), g), Active(Head(q), g, b), f, A)
<1> DEFINE t == Tail(q)  l == q[1]  h == Focused(l, g)  c == Active(l, g, b)
<1>1. /\ Len(q) \in Nat \ {0} /\ Len(t) = Len(q) - 1 /\ Head(q) = l /\ l \in Wire
      /\ 1 \in 1..Len(q)
      /\ \A i \in 1..Len(t) : t[i] = q[i + 1] /\ i + 1 \in 1..Len(q) /\ i + 1 > 1
      /\ \A j \in 1..Len(q) : j # 1 => j - 1 \in 1..Len(t) /\ t[j - 1] = q[j] /\ j - 1 + 1 = j
      /\ \A m : NoMonTo(q, m) <=> NoMonTo(t, m) /\ (IsMon(l) => l.m # m)
      /\ NoMonBefore(q, Len(q) + 1) <=> NoMonBefore(t, Len(t) + 1) /\ ~IsMon(l)
      /\ \A i \in 1..Len(t) : Leads(q, i + 1) <=> Leads(t, i) /\ ~IsMon(l)
  BY LeadsTail
<1>2. ASSUME NEW m \in Tiles!Monitors, NoMonTo(t, m), ~Leading(t), l.m = m PROVE l.w = A[m]
  <2>1. LastAbout(q, 1)
    BY <1>2, HeadIsLast
  <2>2. l.ev # "window"
    <3>1. m # 0
      BY DEF Tiles!Monitors
    <3> QED
      BY <1>1, <1>2, <3>1 DEF Wire
  <2> QED
    BY <1>1, <1>2, <2>1, <2>2 DEF Orderly
<1> HIDE DEF t, l
<1>3. NoMonBefore(t, Len(t) + 1) => h = f
  <2>1. CASE IsMon(l)
    <3> SUFFICES ASSUME NoMonBefore(t, Len(t) + 1) PROVE l.m = f
      BY <2>1 DEF Focused
    <3>1. NoMonAfter(q, 1)
      <4> SUFFICES ASSUME NEW j \in 1..Len(q), j > 1 PROVE ~IsMon(q[j])
        BY DEF NoMonAfter
      <4>1. j # 1 /\ j - 1 < Len(t) + 1
        BY <1>1
      <4> QED
        BY <1>1, <4>1 DEF NoMonBefore
    <3> QED
      BY <1>1, <2>1, <3>1 DEF Orderly, IsMon, l
  <2>2. CASE ~IsMon(l)
    BY <1>1, <2>2 DEF Arrives, Focused
  <2> QED
    BY <2>1, <2>2
<1>4. ASSUME NEW m \in Tiles!Monitors, NoMonTo(t, m)
      PROVE  /\ m = h => \A i \in 1..Len(t) : Leads(t, i) => t[i].m = m
             /\ m # h \/ ~Leading(t) => c[m] = A[m]
  <2>1. CASE IsMon(l)
    <3>1. h = l.m /\ c = [b EXCEPT ![l.m] = l.w] /\ l.m \in Tiles!Monitors
      BY <1>1, <2>1 DEF Focused, Active, Wire, IsMon
    <3>2. m = h => \A i \in 1..Len(t) : Leads(t, i) => t[i].m = m
      <4> SUFFICES ASSUME m = l.m, NEW i \in 1..Len(t), Leads(t, i) PROVE t[i].m = m
        BY <3>1
      <4>1. NoMonBetween(q, 1, i + 1)
        <5> SUFFICES ASSUME NEW k \in 1..Len(q), 1 < k, k < i + 1 PROVE ~IsMon(q[k])
          BY DEF NoMonBetween
        <5>1. k # 1 /\ k - 1 < i
          BY <1>1
        <5> QED
          BY <1>1, <5>1 DEF Leads, NoMonBefore
      <4>2. 1 < i + 1 /\ IsWs(q[i + 1]) /\ IsMon(q[1])
        BY <1>1, <2>1 DEF Leads, l
      <4>3. q[i + 1].m = q[1].m
        BY <1>1, <4>1, <4>2 DEF Orderly
      <4> QED
        BY <1>1, <4>3 DEF l
    <3>3. CASE m = l.m
      <4>1. ~Leading(t) => c[m] = A[m]
        BY <1>2, <1>4, <3>1, <3>3
      <4> QED
        BY <3>1, <3>2, <3>3, <4>1
    <3>4. CASE m # l.m
      <4>1. NoMonTo(q, m) /\ \A i \in 1..Len(q) : ~Leads(q, i)
        <5>1. ASSUME NEW i \in 1..Len(q), Leads(q, i) PROVE FALSE
          <6>1. i # 1
            BY <2>1, <5>1 DEF Leads, IsMon, IsWs, l
          <6> QED
            BY <1>1, <2>1, <5>1, <6>1
        <5> QED
          BY <1>1, <1>4, <3>4, <5>1
      <4>2. b[m] = A[m]
        BY <4>1 DEF Arrives, Leading
      <4> QED
        BY <3>1, <3>2, <3>4, <4>2
    <3> QED
      BY <3>3, <3>4
  <2>2. CASE IsWs(l)
    <3>1. h = g /\ c = [b EXCEPT ![g] = l.w] /\ ~IsMon(l)
      BY <2>2 DEF Focused, Active, IsMon, IsWs
    <3>2. NoMonTo(q, m)
      BY <1>1, <1>4, <3>1
    <3>3. Leads(q, 1)
      <4>1. NoMonBefore(q, 1)
        BY <1>1 DEF NoMonBefore
      <4> QED
        BY <2>2, <4>1 DEF Leads, l
    <3>4. CASE m = g
      <4>1. \A i \in 1..Len(q) : Leads(q, i) => q[i].m = m
        BY <3>2, <3>4 DEF Arrives
      <4>2. l.m = m
        BY <1>1, <3>3, <4>1 DEF l
      <4>3. \A i \in 1..Len(t) : Leads(t, i) => t[i].m = m
        BY <1>1, <3>1, <4>1
      <4>4. ~Leading(t) => c[m] = A[m]
        BY <1>2, <1>4, <3>1, <3>4, <4>2
      <4> QED
        BY <3>1, <3>4, <4>3, <4>4
    <3>5. CASE m # g
      <4>1. b[m] = A[m]
        BY <3>2, <3>5 DEF Arrives
      <4> QED
        BY <3>1, <3>5, <4>1
    <3> QED
      BY <3>4, <3>5
  <2>3. CASE ~IsMon(l) /\ ~IsWs(l)
    <3>1. h = g /\ c = b
      BY <2>3 DEF Focused, Active
    <3>2. NoMonTo(q, m)
      BY <1>1, <1>4, <2>3
    <3>3. \A i \in 1..Len(t) : Leads(t, i) => Leads(q, i + 1)
      BY <1>1, <2>3
    <3>4. Leading(q) => Leading(t)
      <4> SUFFICES ASSUME NEW j \in 1..Len(q), Leads(q, j) PROVE Leading(t)
        BY DEF Leading
      <4>1. j # 1
        BY <2>3 DEF Leads, l
      <4> QED
        BY <1>1, <4>1 DEF Leading
    <3> QED
      BY <1>1, <3>1, <3>2, <3>3, <3>4 DEF Arrives
  <2> QED
    BY <2>1, <2>2, <2>3
<1> QED
  BY <1>1, <1>3, <1>4 DEF Arrives, t, l

\* Workspaces are numbered monitor by monitor.
LEMMA Quotient ==
    ASSUME NEW a \in Nat, NEW p \in Nat \ {0}
    PROVE  LET q == a \div p
           IN  q \in Nat /\ q * p <= a /\ a < (q + 1) * p
  OBVIOUS

LEMMA QuotientIs ==
    ASSUME NEW a \in Nat, NEW p \in Nat \ {0}, NEW k \in Nat, k * p <= a, a < (k + 1) * p
    PROVE  a \div p = k
<1> DEFINE q == a \div p
<1>1. q \in Nat /\ q * p <= a /\ a < (q + 1) * p
  BY Quotient
<1> HIDE DEF q
<1>2. \A i, j \in Nat : i < j => (i + 1) * p <= j * p
  OBVIOUS
<1>3. q * p \in Nat /\ (q + 1) * p \in Nat /\ k * p \in Nat /\ (k + 1) * p \in Nat
  BY <1>1
<1>4. ~(q < k) /\ ~(k < q)
  BY <1>1, <1>2, <1>3
<1> QED
  BY <1>1, <1>4 DEF q

LEMMA NumberOf ==
    ASSUME NEW m \in Tiles!Monitors, NEW k \in 1..PerMonitor
    PROVE  LET w == (m - 1) * PerMonitor + k
           IN  w \in Tiles!Workspaces /\ Tiles!MonitorOf(w) = m
<1> DEFINE p == PerMonitor
           j == m - 1
           w == j * p + k
<1>1. p \in Nat \ {0} /\ NMonitors \in Nat \ {0}
  BY PanelsAssumption DEF PanelsAssumption
<1>2. j \in Nat /\ j + 1 = m /\ m <= NMonitors /\ m \in Nat
  BY <1>1 DEF Tiles!Monitors
<1>3. k \in Nat /\ 1 <= k /\ k <= p
  BY <1>1
<1> HIDE DEF p, j
<1>4. j * p \in Nat /\ (j + 1) * p = j * p + p /\ m * p <= NMonitors * p /\ NMonitors * p \in Nat
  BY <1>1, <1>2
<1>5. /\ w - 1 \in Nat /\ j * p <= w - 1 /\ w - 1 < (j + 1) * p
      /\ w \in 1..(NMonitors * p)
  <2> DEFINE x == j * p
             y == NMonitors * p
  <2>1. x \in Nat /\ y \in Nat /\ (j + 1) * p = x + p /\ x + p <= y
    BY <1>2, <1>4
  <2> HIDE DEF x, y
  <2>2. /\ (x + k) - 1 \in Nat /\ x <= (x + k) - 1 /\ (x + k) - 1 < x + p
        /\ x + k \in 1..y
    BY <1>1, <1>3, <2>1
  <2> QED
    BY <2>1, <2>2 DEF x, y
<1>6. (w - 1) \div p = j
  BY <1>1, <1>2, <1>5, QuotientIs
<1>7. Tiles!MonitorOf(w) = m
  BY <1>2, <1>6 DEF Tiles!MonitorOf, p
<1> QED
  BY <1>5, <1>7 DEF Tiles!Workspaces, p, j

LEMMA MonitorOfIs ==
    ASSUME NEW w \in Tiles!Workspaces
    PROVE  /\ Tiles!MonitorOf(w) \in Tiles!Monitors
           /\ (w - 1) \div PerMonitor = Tiles!MonitorOf(w) - 1
           /\ w \in Nat \ {0}
<1> DEFINE p == PerMonitor
           q == (w - 1) \div p
<1>1. p \in Nat \ {0} /\ NMonitors \in Nat \ {0}
  BY PanelsAssumption DEF PanelsAssumption
<1> HIDE DEF p
<1>2. NMonitors * p \in Nat
  BY <1>1
<1>3. w \in Nat \ {0} /\ w - 1 \in Nat /\ w <= NMonitors * p
  BY <1>2 DEF Tiles!Workspaces, p
<1>4. q \in Nat /\ q * p <= w - 1
  BY <1>1, <1>3, Quotient
<1> HIDE DEF q
<1>5. q < NMonitors
  <2>1. q >= NMonitors => q * p >= NMonitors * p
    BY <1>1, <1>4
  <2> QED
    BY <1>1, <1>2, <1>3, <1>4, <2>1
<1>6. Tiles!MonitorOf(w) = q + 1
  BY DEF Tiles!MonitorOf, p, q
<1>7. q + 1 \in Tiles!Monitors /\ q = (q + 1) - 1
  BY <1>1, <1>4, <1>5 DEF Tiles!Monitors
<1> QED
  BY <1>3, <1>6, <1>7 DEF p, q

LEMMA Numbering ==
    /\ Tiles!Monitors \subseteq Nat \ {0} /\ Tiles!Workspaces \subseteq Nat \ {0}
    /\ 0 \notin Tiles!Workspaces /\ -1 \notin Tiles!Workspaces
    /\ 1 \in Tiles!Workspaces /\ 1 \in Tiles!Monitors /\ Bound \in Tiles!Monitors
    /\ \A w \in Tiles!Workspaces : Tiles!MonitorOf(w) \in Tiles!Monitors
    /\ \A m \in Tiles!Monitors : Tiles!First[m] \in Tiles!Workspaces /\ Tiles!MonitorOf(Tiles!First[m]) = m
<1>1. PerMonitor \in Nat \ {0} /\ NMonitors \in Nat \ {0} /\ Bound \in 1..NMonitors
  BY PanelsAssumption DEF PanelsAssumption
<1>2. 1 \in 1..PerMonitor /\ 1 \in Tiles!Monitors /\ Bound \in Tiles!Monitors
  BY <1>1 DEF Tiles!Monitors
<1>3. \A m \in Tiles!Monitors : Tiles!First[m] \in Tiles!Workspaces /\ Tiles!MonitorOf(Tiles!First[m]) = m
  BY <1>2, NumberOf DEF Tiles!First
<1>4. (1 - 1) * PerMonitor + 1 = 1
  BY <1>1
<1>5. 1 \in Tiles!Workspaces
  <2>1. (1 - 1) * PerMonitor + 1 \in Tiles!Workspaces
    BY <1>2, NumberOf
  <2> QED
    BY <1>4, <2>1
<1>6. Tiles!Monitors \subseteq Nat \ {0} /\ Tiles!Workspaces \subseteq Nat \ {0}
  BY <1>1, MonitorOfIs DEF Tiles!Monitors
<1>7. 0 \notin Tiles!Workspaces /\ -1 \notin Tiles!Workspaces
  BY <1>6
<1> QED
  BY <1>2, <1>3, <1>5, <1>6, <1>7, MonitorOfIs

\* A position of the page is one on the monitor that has the focus.
LEMMA ResolvedIs ==
    ASSUME NEW h, h.focused \in Tiles!Monitors, h.by[h.focused] \in Tiles!Workspaces \union {0},
           NEW w \in Tiles!Workspaces, NEW global \in BOOLEAN
    PROVE  Tiles!Resolve(h, w, global) \in Tiles!Workspaces
<1> DEFINE a == IF Tiles!ActiveId(h) > 0 THEN Tiles!ActiveId(h) ELSE 1
<1>1. a \in Tiles!Workspaces
  BY Numbering DEF Tiles!ActiveId
<1> HIDE DEF a
<1>2. CASE global \/ w \notin 1..PerMonitor
  BY <1>2 DEF Tiles!Resolve
<1>3. CASE ~global /\ w \in 1..PerMonitor
  <2>1. Tiles!Resolve(h, w, global) = ((a - 1) \div PerMonitor) * PerMonitor + w
    BY <1>3 DEF Tiles!Resolve, a
  <2>2. /\ Tiles!MonitorOf(a) \in Tiles!Monitors
        /\ (a - 1) \div PerMonitor = Tiles!MonitorOf(a) - 1
    BY <1>1, MonitorOfIs
  <2>3. (Tiles!MonitorOf(a) - 1) * PerMonitor + w \in Tiles!Workspaces
    BY <1>3, <2>2, NumberOf
  <2> QED
    BY <2>1, <2>2, <2>3
<1> QED
  BY <1>2, <1>3

Places == Tiles!Workspaces \union {Tiles!Nowhere, Tiles!Temp}
Desktop ==
    [focused : Tiles!Monitors, active : [Tiles!Monitors -> Tiles!Workspaces],
     at : [Windows -> Places], order : BOOLEAN, read : BOOLEAN]
Clients == [at : [Windows -> Places], order : BOOLEAN]
Actives == [Tiles!Monitors -> Tiles!Workspaces \union {Tiles!Nowhere}]
Steps == 0..2
Copy ==
    [by : Actives, occupied : SUBSET Tiles!Workspaces, focused : Tiles!Monitors,
     backend : BOOLEAN, clients : Clients, step : Steps]
Owned(c) == \A m \in Tiles!Monitors : Tiles!MonitorOf(c.active[m]) = m
HasWindow(q) == \E i \in 1..Len(q) : q[i].ev = "window"

\* The copy h of the desktop c while the lines q are under way.
CopyFollows(c, q, h) ==
    /\ c \in Desktop /\ Owned(c) /\ q \in Seq(Wire) /\ h \in Copy
    /\ h.backend => Orderly(q, c.focused, c.active)
    /\ h.backend /\ h.step # 1 => Arrives(q, h.focused, h.by, c.focused, c.active)
    /\ h.backend => h.occupied = Tiles!Occupied(c.at) \/ HasWindow(q)
    /\ c.read => h.clients = Tiles!ClientsOf(c)

\* The lines t follow the desktop with focus e and active workspaces B as q follow
\* the one with focus f and active workspaces A.
Tells(q, f, A, t, e, B) ==
    Orderly(q, f, A) =>
        /\ Orderly(t, e, B)
        /\ \A g, b : Arrives(q, g, b, f, A) => Arrives(t, g, b, e, B)

LEMMA TellsMon ==
    ASSUME NEW q \in Seq(Wire), NEW f, NEW A, NEW l \in Wire, IsMon(l), l.w = A[l.m]
    PROVE  Tells(q, f, A, Append(q, l), l.m, A)
<1> SUFFICES ASSUME Orderly(q, f, A)
             PROVE  /\ Orderly(Append(q, l), l.m, A)
                    /\ \A g, b : Arrives(q, g, b, f, A) => Arrives(Append(q, l), g, b, l.m, A)
  BY DEF Tells
<1>1. Orderly(Append(q, l), l.m, A)
  BY OrderlyMon
<1>2. ASSUME NEW g, NEW b, Arrives(q, g, b, f, A) PROVE Arrives(Append(q, l), g, b, l.m, A)
  BY <1>2, ArrivesMon
<1> QED
  BY <1>1, <1>2

LEMMA TellsWs ==
    ASSUME NEW q \in Seq(Wire), NEW f, NEW A, NEW l \in Wire, IsWs(l), l.m = f,
           NEW B, B[f] = l.w, \A m \in Tiles!Monitors : m # f => B[m] = A[m]
    PROVE  Tells(q, f, A, Append(q, l), f, B)
<1> SUFFICES ASSUME Orderly(q, f, A)
             PROVE  /\ Orderly(Append(q, l), f, B)
                    /\ \A g, b : Arrives(q, g, b, f, A) => Arrives(Append(q, l), g, b, f, B)
  BY DEF Tells
<1>1. Orderly(Append(q, l), f, B)
  BY OrderlyWs
<1>2. ASSUME NEW g, NEW b, Arrives(q, g, b, f, A) PROVE Arrives(Append(q, l), g, b, f, B)
  BY <1>2, ArrivesWs
<1> QED
  BY <1>1, <1>2

LEMMA TellsWindow ==
    ASSUME NEW q \in Seq(Wire), NEW f \in Tiles!Monitors, NEW A, NEW l \in Wire, l.ev = "window"
    PROVE  Tells(q, f, A, Append(q, l), f, A)
<1> SUFFICES ASSUME Orderly(q, f, A)
             PROVE  /\ Orderly(Append(q, l), f, A)
                    /\ \A g, b : Arrives(q, g, b, f, A) => Arrives(Append(q, l), g, b, f, A)
  BY DEF Tells
<1>1. Orderly(Append(q, l), f, A)
  BY OrderlyWindow
<1>2. ASSUME NEW g, NEW b, Arrives(q, g, b, f, A) PROVE Arrives(Append(q, l), g, b, f, A)
  BY <1>2, ArrivesWindow
<1> QED
  BY <1>1, <1>2

LEMMA TellsOn ==
    ASSUME NEW q, NEW f, NEW A, NEW t, NEW e, NEW B, NEW u, NEW d, NEW C,
           Tells(q, f, A, t, e, B), Tells(t, e, B, u, d, C)
    PROVE  Tells(q, f, A, u, d, C)
BY DEF Tells

\* What is written after a queue.
LEMMA Written ==
    ASSUME NEW S, NEW q \in Seq(S), NEW k \in S, NEW l \in S
    PROVE  /\ q \o (<<>> \o <<>>) = q
           /\ q \o (<<k>> \o <<>>) = Append(q, k)
           /\ q \o (<<>> \o <<l>>) = Append(q, l)
           /\ q \o (<<k>> \o <<l>>) = Append(Append(q, k), l)
<1>1. /\ <<>> \in Seq(S) /\ <<k>> \in Seq(S) /\ <<l>> \in Seq(S)
      /\ Append(q, k) \in Seq(S)
  OBVIOUS
<1>2. \A t \in Seq(S) : t \o <<>> = t /\ <<>> \o t = t
  BY ConcatEmptySeq
<1>3. \A t \in Seq(S), e \in S : t \o <<e>> = Append(t, e)
  BY AppendIsConcat
<1>4. q \o (<<k>> \o <<l>>) = (q \o <<k>>) \o <<l>>
  BY <1>1, ConcatAssociative
<1> QED
  BY <1>1, <1>2, <1>3, <1>4

LEMMA WindowStays ==
    ASSUME NEW q \in Seq(Wire), NEW l \in Wire
    PROVE  /\ Append(q, l) \in Seq(Wire)
           /\ HasWindow(q) => HasWindow(Append(q, l))
           /\ l.ev = "window" => HasWindow(Append(q, l))
<1> DEFINE t == Append(q, l)
<1>1. /\ t \in Seq(Wire) /\ Len(q) \in Nat /\ Len(t) = Len(q) + 1
      /\ t[Len(q) + 1] = l /\ \A i \in 1..Len(q) : t[i] = q[i]
  BY Grows
<1> HIDE DEF t
<1>2. Len(q) + 1 \in 1..Len(t) /\ \A i \in 1..Len(q) : i \in 1..Len(t)
  BY <1>1
<1> QED
  BY <1>1, <1>2 DEF HasWindow, t

\* A workspace gets the focus.
LEMMA FocusTells ==
    ASSUME NEW c \in Desktop, Owned(c), NEW w \in Tiles!Workspaces, NEW q \in Seq(Wire)
    PROVE  LET d == Tiles!FocusOn(c, w)
               t == q \o Tiles!FocusLines(c, w)
           IN  /\ d \in Desktop /\ Owned(d) /\ d.at = c.at /\ d.order = c.order /\ d.read = FALSE
               /\ t \in Seq(Wire) /\ (HasWindow(q) => HasWindow(t))
               /\ Tells(q, c.focused, c.active, t, d.focused, d.active)
<1> DEFINE m == Tiles!MonitorOf(w)
           d == Tiles!FocusOn(c, w)
           k == [ev |-> "mon", m |-> m, w |-> c.active[m]]
           l == [ev |-> "ws", m |-> m, w |-> w]
           u == IF m = c.focused THEN q ELSE Append(q, k)
           t == IF c.active[m] = w THEN u ELSE Append(u, l)
<1>1. m \in Tiles!Monitors
  BY Numbering
<1>2. /\ c.active \in [Tiles!Monitors -> Tiles!Workspaces] /\ c.focused \in Tiles!Monitors
      /\ c.active[m] \in Tiles!Workspaces
  BY <1>1 DEF Desktop
<1>3. /\ d \in Desktop /\ d.at = c.at /\ d.order = c.order /\ d.read = FALSE
      /\ d.focused = m /\ d.active = [c.active EXCEPT ![m] = w]
  BY <1>1, <1>2 DEF Desktop, Tiles!FocusOn
<1>4. Owned(d)
  BY <1>1, <1>2, <1>3 DEF Owned
<1>5. /\ k \in Wire /\ IsMon(k) /\ k.m = m /\ k.w = c.active[m]
      /\ l \in Wire /\ IsWs(l) /\ l.m = m /\ l.w = w
  BY <1>1, <1>2 DEF Wire, IsMon, IsWs
<1>6. q \o Tiles!FocusLines(c, w) = t
  <2>1. Tiles!FocusLines(c, w) = (IF m = c.focused THEN <<>> ELSE <<k>>)
                                  \o (IF c.active[m] = w THEN <<>> ELSE <<l>>)
    BY DEF Tiles!FocusLines
  <2> HIDE DEF k, l, m
  <2>2. /\ q \o (<<>> \o <<>>) = q /\ q \o (<<k>> \o <<>>) = Append(q, k)
        /\ q \o (<<>> \o <<l>>) = Append(q, l) /\ q \o (<<k>> \o <<l>>) = Append(Append(q, k), l)
    BY <1>5, Written
  <2>3. CASE m = c.focused /\ c.active[m] = w
    BY <2>1, <2>2, <2>3
  <2>4. CASE m = c.focused /\ c.active[m] # w
    BY <2>1, <2>2, <2>4
  <2>5. CASE m # c.focused /\ c.active[m] = w
    BY <2>1, <2>2, <2>5
  <2>6. CASE m # c.focused /\ c.active[m] # w
    BY <2>1, <2>2, <2>6
  <2> QED
    BY <2>3, <2>4, <2>5, <2>6
<1> HIDE DEF m, d, k, l
<1>7. u \in Seq(Wire) /\ (HasWindow(q) => HasWindow(u)) /\ Tells(q, c.focused, c.active, u, m, c.active)
  <2>1. CASE m = c.focused
    BY <2>1 DEF Tells
  <2>2. CASE m # c.focused
    <3>1. Append(q, k) \in Seq(Wire) /\ (HasWindow(q) => HasWindow(Append(q, k)))
      BY <1>5, WindowStays
    <3>2. Tells(q, c.focused, c.active, Append(q, k), k.m, c.active)
      BY <1>5, TellsMon
    <3> QED
      BY <1>5, <2>2, <3>1, <3>2
  <2> QED
    BY <2>1, <2>2
<1> HIDE DEF u
<1>8. t \in Seq(Wire) /\ (HasWindow(u) => HasWindow(t)) /\ Tells(u, m, c.active, t, m, d.active)
  <2>1. CASE c.active[m] = w
    <3>1. d.active = c.active
      BY <1>1, <1>2, <1>3, <2>1
    <3> QED
      BY <1>7, <2>1, <3>1 DEF Tells
  <2>2. CASE c.active[m] # w
    <3>1. Append(u, l) \in Seq(Wire) /\ (HasWindow(u) => HasWindow(Append(u, l)))
      BY <1>5, <1>7, WindowStays
    <3>2. d.active[m] = l.w /\ \A n \in Tiles!Monitors : n # m => d.active[n] = c.active[n]
      BY <1>1, <1>2, <1>3, <1>5
    <3>3. Tells(u, m, c.active, Append(u, l), m, d.active)
      BY <1>5, <1>7, <3>2, TellsWs
    <3> QED
      BY <2>2, <3>1, <3>3
  <2> QED
    BY <2>1, <2>2
<1> HIDE DEF t
<1>9. Tells(q, c.focused, c.active, t, m, d.active)
  BY <1>7, <1>8, TellsOn
<1> QED
  BY <1>3, <1>4, <1>6, <1>7, <1>8, <1>9 DEF d

\* The copy still follows when the desktop tells what it does.
LEMMA ToldFollows ==
    ASSUME NEW c, NEW q, NEW h, CopyFollows(c, q, h), NEW d \in Desktop, Owned(d), NEW t \in Seq(Wire),
           Tells(q, c.focused, c.active, t, d.focused, d.active), HasWindow(q) => HasWindow(t),
           d.at = c.at \/ HasWindow(t), d.read => h.clients = Tiles!ClientsOf(d)
    PROVE  CopyFollows(d, t, h)
<1>1. h \in Copy
  BY DEF CopyFollows
<1>2. h.backend => Orderly(t, d.focused, d.active)
  BY DEF CopyFollows, Tells
<1>3. h.backend /\ h.step # 1 => Arrives(t, h.focused, h.by, d.focused, d.active)
  BY DEF CopyFollows, Tells
<1>4. h.backend => h.occupied = Tiles!Occupied(d.at) \/ HasWindow(t)
  BY DEF CopyFollows
<1> QED
  BY <1>1, <1>2, <1>3, <1>4 DEF CopyFollows

\* Without the events nothing is told.
LEMMA UntoldFollows ==
    ASSUME NEW c, NEW q, NEW h, CopyFollows(c, q, h), ~h.backend, NEW d \in Desktop, Owned(d),
           d.read => h.clients = Tiles!ClientsOf(d)
    PROVE  CopyFollows(d, q, h)
BY DEF CopyFollows

LEMMA FocusFollows ==
    ASSUME NEW c, NEW q, NEW h, CopyFollows(c, q, h), NEW w \in Tiles!Workspaces
    PROVE  CopyFollows(Tiles!FocusOn(c, w), IF h.backend THEN q \o Tiles!FocusLines(c, w) ELSE q, h)
<1> DEFINE d == Tiles!FocusOn(c, w)
           t == q \o Tiles!FocusLines(c, w)
<1>1. c \in Desktop /\ Owned(c) /\ q \in Seq(Wire)
  BY DEF CopyFollows
<1>2. /\ d \in Desktop /\ Owned(d) /\ d.at = c.at /\ d.read = FALSE
      /\ t \in Seq(Wire) /\ (HasWindow(q) => HasWindow(t))
      /\ Tells(q, c.focused, c.active, t, d.focused, d.active)
  BY <1>1, FocusTells
<1> HIDE DEF d, t
<1>3. CopyFollows(d, t, h)
  BY <1>2, ToldFollows
<1>4. ~h.backend => CopyFollows(d, q, h)
  BY <1>2, UntoldFollows
<1> QED
  BY <1>3, <1>4 DEF d, t

\* A window opens, moves or closes.
LEMMA WindowFollows ==
    ASSUME NEW c, NEW q, NEW h, CopyFollows(c, q, h), NEW x \in Windows, NEW v \in Places
    PROVE  CopyFollows([c EXCEPT !.at[x] = v, !.read = FALSE],
                       IF h.backend THEN q \o Tiles!WindowLine ELSE q, h)
<1> DEFINE d == [c EXCEPT !.at[x] = v, !.read = FALSE]
           l == [ev |-> "window", m |-> 0, w |-> 0]
           t == Append(q, l)
<1>1. c \in Desktop /\ Owned(c) /\ q \in Seq(Wire)
  BY DEF CopyFollows
<1>2. l \in Wire /\ l.ev = "window"
  BY DEF Wire
<1>3. d \in Desktop /\ d.focused = c.focused /\ d.active = c.active /\ d.read = FALSE
  BY <1>1 DEF Desktop
<1>4. Owned(d)
  BY <1>1, <1>3 DEF Owned
<1>5. q \o Tiles!WindowLine = t
  BY <1>1, <1>2, AppendIsConcat DEF Tiles!WindowLine
<1>6. c.focused \in Tiles!Monitors
  BY <1>1 DEF Desktop
<1> HIDE DEF d, l
<1>7. t \in Seq(Wire) /\ HasWindow(t)
  BY <1>1, <1>2, WindowStays
<1>8. Tells(q, c.focused, c.active, t, c.focused, c.active)
  BY <1>1, <1>2, <1>6, TellsWindow
<1> HIDE DEF t
<1>9. CopyFollows(d, t, h)
  BY <1>3, <1>4, <1>7, <1>8, ToldFollows
<1>10. ~h.backend => CopyFollows(d, q, h)
  BY <1>3, <1>4, UntoldFollows
<1> QED
  BY <1>5, <1>9, <1>10 DEF d

Commands ==
    [do : {"focus"}, w : Tiles!Workspaces]
    \union [do : {"move"}, x : Windows, w : Tiles!Workspaces \union {Tiles!Temp}]
    \union [do : {"close"}, x : Windows]

LEMMA CommandCases ==
    ASSUME NEW cmd \in Commands
    PROVE  \/ cmd.do = "focus" /\ cmd.w \in Tiles!Workspaces
           \/ cmd.do = "move" /\ cmd.x \in Windows /\ cmd.w \in Tiles!Workspaces \union {Tiles!Temp}
           \/ cmd.do = "close" /\ cmd.x \in Windows
BY DEF Commands

LEMMA LinesAre ==
    ASSUME NEW q \in Seq(Wire), NEW s \in Seq(Wire)
    PROVE  q \o (<<>> \o s) = q \o s /\ q \o (s \o <<>>) = q \o s /\ q \o (<<>> \o <<>>) = q
<1>1. \A t \in Seq(Wire) : t \o <<>> = t /\ <<>> \o t = t
  BY ConcatEmptySeq
<1>2. <<>> \in Seq(Wire)
  OBVIOUS
<1> QED
  BY <1>1, <1>2

LEMMA EffectFollows ==
    ASSUME NEW c, NEW q, NEW h, CopyFollows(c, q, h), NEW cmd \in Commands
    PROVE  CopyFollows(Tiles!Effect(c, cmd), IF h.backend THEN q \o Tiles!Lines(c, cmd) ELSE q, h)
<1>1. c \in Desktop /\ Owned(c) /\ q \in Seq(Wire)
  BY DEF CopyFollows
<1>2. \A w \in Tiles!Workspaces : Tiles!FocusLines(c, w) \in Seq(Wire)
  <2> TAKE w \in Tiles!Workspaces
  <2> DEFINE m == Tiles!MonitorOf(w)
             k == [ev |-> "mon", m |-> m, w |-> c.active[m]]
             l == [ev |-> "ws", m |-> m, w |-> w]
             a == IF m = c.focused THEN <<>> ELSE <<k>>
             b == IF c.active[m] = w THEN <<>> ELSE <<l>>
  <2>1. m \in Tiles!Monitors
    BY Numbering
  <2>2. k \in Wire /\ l \in Wire
    BY <1>1, <2>1 DEF Wire, Desktop
  <2>3. Tiles!FocusLines(c, w) = a \o b
    BY DEF Tiles!FocusLines
  <2> HIDE DEF m, k, l
  <2>4. a \in Seq(Wire) /\ b \in Seq(Wire)
    BY <2>2
  <2> QED
    BY <2>3, <2>4
<1>3. Tiles!WindowLine \in Seq(Wire)
  BY DEF Tiles!WindowLine, Wire
<1>4. CASE cmd.do = "focus"
  <2>1. cmd.w \in Tiles!Workspaces
    BY <1>4, CommandCases
  <2>2. Tiles!Lines(c, cmd) = <<>> \o Tiles!FocusLines(c, cmd.w)
    BY <1>4 DEF Tiles!Lines
  <2>3. q \o Tiles!Lines(c, cmd) = q \o Tiles!FocusLines(c, cmd.w)
    BY <1>1, <1>2, <2>1, <2>2, LinesAre
  <2>4. Tiles!Effect(c, cmd) = Tiles!FocusOn(c, cmd.w)
    BY <1>4 DEF Tiles!Effect
  <2> QED
    BY <2>1, <2>3, <2>4, FocusFollows
<1>5. CASE cmd.do # "focus"
  <2> DEFINE v == IF cmd.do = "move" THEN cmd.w ELSE Tiles!Nowhere
             x == cmd.x
  <2>1. cmd.do \in {"move", "close"} /\ x \in Windows /\ v \in Places
    BY <1>5, CommandCases DEF Places
  <2>2. Tiles!Effect(c, cmd) = Tiles!Moved(c, x, v)
    BY <1>5, <2>1 DEF Tiles!Effect
  <2>3. Tiles!Lines(c, cmd) = (IF c.at[x] = Tiles!Nowhere THEN <<>> ELSE Tiles!WindowLine) \o <<>>
    BY <1>5, <2>1 DEF Tiles!Lines
  <2> HIDE DEF v, x
  <2>4. CASE c.at[x] = Tiles!Nowhere
    <3>1. Tiles!Effect(c, cmd) = c
      BY <2>2, <2>4 DEF Tiles!Moved
    <3>2. q \o Tiles!Lines(c, cmd) = q
      BY <1>1, <1>3, <2>3, <2>4, LinesAre
    <3> QED
      BY <3>1, <3>2
  <2>5. CASE c.at[x] # Tiles!Nowhere
    <3>1. Tiles!Effect(c, cmd) = [c EXCEPT !.at[x] = v, !.read = FALSE]
      BY <2>2, <2>5 DEF Tiles!Moved
    <3>2. q \o Tiles!Lines(c, cmd) = q \o Tiles!WindowLine
      BY <1>1, <1>3, <2>3, <2>5, LinesAre
    <3>3. CopyFollows([c EXCEPT !.at[x] = v, !.read = FALSE],
                      IF h.backend THEN q \o Tiles!WindowLine ELSE q, h)
      BY <2>1, WindowFollows
    <3> QED
      BY <3>1, <3>2, <3>3
  <2> QED
    BY <2>4, <2>5
<1> QED
  BY <1>4, <1>5

\* What a line makes of the copy.
LEMMA PatchedIs ==
    ASSUME NEW h \in Copy, NEW l \in Wire
    PROVE  LET k == Tiles!Patched(h, l)
           IN  /\ k \in Copy
               /\ k.focused = Focused(l, h.focused) /\ k.by = Active(l, h.focused, h.by)
               /\ k.occupied = h.occupied /\ k.backend = h.backend
               /\ k.clients = h.clients /\ k.step = h.step
<1>1. l.ev \in {"mon", "ws", "window"}
  BY DEF Wire
<1>2. CASE l.ev = "mon"
  <2>1. l.m \in Tiles!Monitors /\ l.w \in Tiles!Workspaces
    BY <1>2 DEF Wire
  <2>2. Tiles!Patched(h, l) = [h EXCEPT !.focused = l.m, !.by[l.m] = l.w]
    BY <1>2 DEF Tiles!Patched
  <2> DEFINE b == [h.by EXCEPT ![l.m] = l.w]
             k == Tiles!Patched(h, l)
  <2>3. h.by \in Actives
    BY DEF Copy
  <2>4. b \in Actives
    BY <2>1, <2>3 DEF Actives
  <2>5. k = [h EXCEPT !.focused = l.m, !.by = b]
    BY <2>2
  <2>6. Focused(l, h.focused) = l.m /\ Active(l, h.focused, h.by) = b
    BY <1>2 DEF Focused, Active, IsMon
  <2> HIDE DEF b, k
  <2>7. /\ k \in Copy /\ k.focused = l.m /\ k.by = b
        /\ k.occupied = h.occupied /\ k.backend = h.backend
        /\ k.clients = h.clients /\ k.step = h.step
    BY <2>1, <2>4, <2>5 DEF Copy
  <2> QED
    BY <2>6, <2>7 DEF k
<1>3. CASE l.ev = "ws"
  <2>1. l.w \in Tiles!Workspaces
    BY <1>3 DEF Wire
  <2>2. Tiles!Patched(h, l) = [h EXCEPT !.by[h.focused] = l.w]
    BY <1>3 DEF Tiles!Patched
  <2> DEFINE b == [h.by EXCEPT ![h.focused] = l.w]
             k == Tiles!Patched(h, l)
  <2>3. b \in Actives
    BY <2>1 DEF Actives, Copy
  <2>4. Focused(l, h.focused) = h.focused /\ Active(l, h.focused, h.by) = b
    BY <1>3 DEF Focused, Active, IsMon, IsWs
  <2>5. k = [h EXCEPT !.by = b]
    BY <2>2
  <2> HIDE DEF b, k
  <2>6. /\ k \in Copy /\ k.focused = h.focused /\ k.by = b
        /\ k.occupied = h.occupied /\ k.backend = h.backend
        /\ k.clients = h.clients /\ k.step = h.step
    BY <2>3, <2>5 DEF Copy
  <2> QED
    BY <2>4, <2>6 DEF k
<1>4. CASE l.ev = "window"
  BY <1>4 DEF Tiles!Patched, Focused, Active, IsMon, IsWs
<1> QED
  BY <1>1, <1>2, <1>3, <1>4

\* The copy k with the lines t to come, once h has taken some of its lines.
Taken(c, h, t, k) ==
    /\ k \in Copy /\ t \in Seq(Wire)
    /\ k.occupied = h.occupied /\ k.backend = h.backend
    /\ k.clients = h.clients /\ k.step = h.step
    /\ Orderly(t, c.focused, c.active)
    /\ Arrives(t, k.focused, k.by, c.focused, c.active)

LEMMA OneTaken ==
    ASSUME NEW c, NEW h, NEW t, NEW k, Taken(c, h, t, k), t # <<>>
    PROVE  Taken(c, h, Tail(t), Tiles!Patched(k, Head(t)))
<1>1. /\ k \in Copy /\ t \in Seq(Wire) /\ Orderly(t, c.focused, c.active)
      /\ Arrives(t, k.focused, k.by, c.focused, c.active)
  BY DEF Taken
<1>2. Head(t) \in Wire /\ Tail(t) \in Seq(Wire)
  BY <1>1, Shrinks
<1>3. k.focused \in Tiles!Monitors /\ k.by \in Actives
  BY <1>1 DEF Copy
<1>4. k.by \in [Tiles!Monitors -> Int]
  <2>1. Tiles!Workspaces \union {Tiles!Nowhere} \subseteq Int
    BY Numbering DEF Tiles!Nowhere
  <2> QED
    BY <1>3, <2>1 DEF Actives
<1>5. Orderly(Tail(t), c.focused, c.active)
  BY <1>1, OrderlyTail
<1>6. Arrives(Tail(t), Focused(Head(t), k.focused), Active(Head(t), k.focused, k.by),
              c.focused, c.active)
  BY <1>1, <1>3, <1>4, ArrivesTail
<1> DEFINE j == Tiles!Patched(k, Head(t))
<1>7. /\ j \in Copy
      /\ j.focused = Focused(Head(t), k.focused) /\ j.by = Active(Head(t), k.focused, k.by)
      /\ j.occupied = k.occupied /\ j.backend = k.backend
      /\ j.clients = k.clients /\ j.step = k.step
  BY <1>1, <1>2, PatchedIs
<1> HIDE DEF j
<1>8. Arrives(Tail(t), j.focused, j.by, c.focused, c.active)
  BY <1>6, <1>7
<1>9. Taken(c, h, Tail(t), j)
  BY <1>2, <1>5, <1>7, <1>8 DEF Taken
<1> QED
  BY <1>9 DEF j

\* The lines are applied one after the other.
LEMMA LinesInTurn ==
    ASSUME NEW q \in Seq(Wire)
    PROVE  LET a == Tiles!AfterLines(q)
           IN  a = [n \in 0..Len(q) |-> IF n = 0 THEN hypr ELSE Tiles!Patched(a[n - 1], q[n])]
<1> DEFINE next(x, n) == Tiles!Patched(x, q[n])
           Is(g, m) == g = [n \in 0..m |-> IF n = 0 THEN hypr ELSE next(g[n - 1], n)]
<1>1. Len(q) \in Nat
  OBVIOUS
<1> HIDE DEF next
<1>2. ASSUME NEW m \in Nat PROVE \E g : Is(g, m)
  <2> DEFINE S == {j \in Nat : ~\E g : Is(g, j)}
  <2> SUFFICES ASSUME S # {} PROVE FALSE
    OBVIOUS
  <2>1. PICK j \in S : \A k \in S : j <= k
    <3>1. S \subseteq Nat
      OBVIOUS
    <3> HIDE DEF S
    <3> QED
      BY <3>1, Least
  <2>2. CASE j = 0
    <3> DEFINE g == [n \in 0..0 |-> hypr]
    <3>1. \A n \in 0..0 : n = 0
      OBVIOUS
    <3>2. g = [n \in 0..0 |-> IF n = 0 THEN hypr ELSE next(g[n - 1], n)]
      BY <3>1
    <3> QED
      BY <2>1, <2>2, <3>2
  <2>3. CASE j # 0
    <3>1. j \in Nat /\ j - 1 \in Nat /\ ~(j <= j - 1)
      BY <2>1, <2>3
    <3>2. PICK g : Is(g, j - 1)
      BY <2>1, <3>1
    <3> DEFINE f == [n \in 0..j |-> IF n = j THEN next(g[j - 1], j) ELSE g[n]]
               f2 == [n \in 0..j |-> IF n = 0 THEN hypr ELSE next(f[n - 1], n)]
    <3>3. \A n \in 0..(j - 1) : g[n] = IF n = 0 THEN hypr ELSE next(g[n - 1], n)
      BY <3>2
    <3>4. ASSUME NEW n \in 0..j PROVE f[n] = f2[n]
      <4>1. CASE n = j
        <5>1. j - 1 \in 0..j /\ j - 1 # j
          BY <3>1
        <5>2. f[j - 1] = g[j - 1]
          BY <5>1
        <5> QED
          BY <2>3, <4>1, <5>2
      <4>2. CASE n # j
        <5>1. n \in 0..(j - 1) /\ (n # 0 => n - 1 \in 0..j /\ n - 1 # j)
          BY <3>1, <4>2
        <5>2. n # 0 => f[n - 1] = g[n - 1]
          BY <5>1
        <5> QED
          BY <3>3, <4>2, <5>1, <5>2
      <4> QED
        BY <4>1, <4>2
    <3>5. f = f2
      BY <3>4
    <3>6. Is(f, j)
      BY <3>5
    <3> QED
      BY <2>1, <3>6
  <2> QED
    BY <2>2, <2>3
<1>3. Tiles!AfterLines(q) = CHOOSE g : Is(g, Len(q))
  BY DEF Tiles!AfterLines, next
<1>4. Is(Tiles!AfterLines(q), Len(q))
  <2> HIDE DEF Is
  <2> QED
    BY <1>1, <1>2, <1>3
<1> QED
  BY <1>4 DEF next

\* So after any number of lines.
LEMMA SomeTaken ==
    ASSUME CopyFollows(hyprland, events, hypr), hypr.backend, hypr.step = 0, NEW n \in 1..Len(events)
    PROVE  Taken(hyprland, hypr, SubSeq(events, n + 1, Len(events)),
                 Tiles!AfterLines(SubSeq(events, 1, n))[n])
<1> DEFINE q == SubSeq(events, 1, n)
           a == Tiles!AfterLines(q)
           Fits(m) == Taken(hyprland, hypr, SubSeq(events, m + 1, Len(events)), a[m])
           S == {j \in 0..n : ~Fits(j)}
<1>1. events \in Seq(Wire)
  BY DEF CopyFollows
<1>2. Len(events) \in Nat /\ n \in Nat /\ 1 <= n /\ n <= Len(events)
  BY <1>1
<1>3. q \in Seq(Wire) /\ Len(q) = n /\ \A i \in 1..n : q[i] = events[i]
  <2>1. \A i \in 1..n : events[i] \in Wire
    BY <1>1, <1>2
  <2>2. /\ q \in Seq(Wire) /\ Len(q) = (IF 1 <= n THEN n - 1 + 1 ELSE 0)
        /\ \A i \in 1..(n - 1 + 1) : q[i] = events[1 + i - 1]
    BY <1>2, <2>1, SubSeqProperties
  <2> HIDE DEF q
  <2> QED
    BY <1>2, <2>2
<1> HIDE DEF q
<1>4. a = [m \in 0..n |-> IF m = 0 THEN hypr ELSE Tiles!Patched(a[m - 1], q[m])]
  BY <1>3, LinesInTurn
<1> HIDE DEF a
<1>5. a[0] = hypr
  BY <1>2, <1>4
<1>6. \A m \in 1..n : a[m] = Tiles!Patched(a[m - 1], events[m])
  <2> TAKE m \in 1..n
  <2>1. m \in 0..n /\ m # 0
    BY <1>2
  <2> QED
    BY <1>3, <1>4, <2>1
<1>7. Fits(0)
  <2>1. SubSeq(events, 1, Len(events)) = events
    BY <1>1, SubSeqFull
  <2>2. Taken(hyprland, hypr, events, hypr)
    BY DEF Taken, CopyFollows
  <2>3. 0 + 1 = 1
    OBVIOUS
  <2> QED
    BY <1>5, <2>1, <2>2, <2>3
<1>8. ASSUME NEW m \in 1..n, Fits(m - 1) PROVE Fits(m)
  <2> DEFINE t == SubSeq(events, m, Len(events))
  <2>1. m \in 1..Len(events) /\ (m - 1) + 1 = m /\ Len(events) \in m..Len(events) /\ m <= Len(events) /\ m \in Nat
    BY <1>2
  <2>2. Head(t) = events[m] /\ Tail(t) = SubSeq(events, m + 1, Len(events))
    BY <1>1, <2>1, HeadTailOfSubSeq
  <2>3. t # <<>>
    <3>1. \A i \in m..Len(events) : events[i] \in Wire
      BY <1>1, <1>2, <2>1
    <3>2. Len(t) = (IF m <= Len(events) THEN Len(events) - m + 1 ELSE 0)
      BY <1>2, <2>1, <3>1, SubSeqProperties
    <3>3. Len(t) # 0
      BY <1>2, <2>1, <3>2
    <3> HIDE DEF t
    <3> QED
      BY <3>3
  <2>4. Taken(hyprland, hypr, t, a[m - 1])
    BY <1>8, <2>1
  <2> HIDE DEF t
  <2>5. Taken(hyprland, hypr, Tail(t), Tiles!Patched(a[m - 1], Head(t)))
    BY <2>3, <2>4, OneTaken
  <2> QED
    BY <1>6, <2>2, <2>5
<1>9. S = {}
  <2> SUFFICES ASSUME S # {} PROVE FALSE
    OBVIOUS
  <2>1. S \subseteq Nat /\ \A j \in S : j \in 0..n /\ ~Fits(j)
    BY <1>2
  <2>2. \A j \in 0..n : ~Fits(j) => j \in S
    OBVIOUS
  <2> HIDE DEF S, Fits
  <2>3. PICK j \in S : \A k \in S : j <= k
    BY <2>1, Least
  <2>4. j # 0
    BY <1>7, <2>1, <2>3
  <2>5. j \in 1..n /\ j - 1 \in 0..n /\ ~(j <= j - 1)
    BY <1>2, <2>1, <2>3, <2>4
  <2>6. Fits(j - 1)
    BY <2>2, <2>3, <2>5
  <2> QED
    BY <1>8, <2>1, <2>3, <2>5, <2>6
<1>10. n \in 0..n /\ Fits(n)
  BY <1>2, <1>9
<1> QED
  BY <1>10 DEF a, q

\* The row of the bar shows the copy once it is drawn.
RowFollows(h, r) ==
    /\ "redraw" \in DOMAIN r
    /\ h.step = 0 /\ h.backend /\ ~r.redraw =>
          /\ r.active = h.by /\ r.occupied = h.occupied /\ r.order = h.clients.order
          /\ r.dock = Tiles!Drawn(h).dock

LEMMA RedrawnFollows ==
    ASSUME NEW r, "redraw" \in DOMAIN r, NEW h
    PROVE  RowFollows(h, [r EXCEPT !.redraw = TRUE])
BY DEF RowFollows

LEMMA DrawnFollows ==
    ASSUME NEW h
    PROVE  RowFollows(h, Tiles!Drawn(h))
BY DEF RowFollows, Tiles!Drawn

Follows == CopyFollows(hyprland, events, hypr) /\ RowFollows(hypr, row)

LEMMA CopyTyped ==
    ASSUME NEW c, NEW q, NEW h, CopyFollows(c, q, h)
    PROVE  /\ c \in Desktop /\ q \in Seq(Wire) /\ h \in Copy
           /\ Tiles!Occupied(c.at) \subseteq Tiles!Workspaces /\ Tiles!ClientsOf(c) \in Clients
           /\ Tiles!Unknown \in Actives
<1>1. c \in Desktop /\ q \in Seq(Wire) /\ h \in Copy
  BY DEF CopyFollows
<1>2. Tiles!Occupied(c.at) \subseteq Tiles!Workspaces
  BY DEF Tiles!Occupied
<1>3. Tiles!ClientsOf(c) \in Clients
  BY <1>1 DEF Tiles!ClientsOf, Clients, Desktop
<1>4. Tiles!Unknown \in Actives
  BY DEF Tiles!Unknown, Actives
<1> QED
  BY <1>1, <1>2, <1>3, <1>4

\* A refresh begins: whatever the copy was, its windows are counted again.
LEMMA RefreshFollows ==
    ASSUME NEW q, CopyFollows(hyprland, events, hypr), NEW h \in Copy, q \in Seq(Wire),
           h.clients = hypr.clients, h.backend = hypr.backend,
           hypr.backend => Orderly(q, hyprland.focused, hyprland.active)
    PROVE  CopyFollows(hyprland, q, Tiles!ReadWorkspaces(h)) /\ Tiles!ReadWorkspaces(h).step = 1
<1> DEFINE o == Tiles!Occupied(hyprland.at)
           u == Tiles!Unknown
           k == Tiles!ReadWorkspaces(h)
<1>1. /\ hyprland \in Desktop /\ o \subseteq Tiles!Workspaces
      /\ u \in Actives
  BY CopyTyped
<1>2. k = [h EXCEPT !.by = u, !.occupied = o, !.step = 1]
  BY DEF Tiles!ReadWorkspaces
<1> HIDE DEF o, u, k
<1>3. /\ k \in Copy /\ k.step = 1 /\ k.occupied = o
      /\ k.clients = h.clients /\ k.backend = h.backend
  <2>1. o \in SUBSET Tiles!Workspaces /\ 1 \in Steps
    BY <1>1 DEF Steps
  <2>2. k = [by |-> u, occupied |-> o, focused |-> h.focused, backend |-> h.backend,
             clients |-> h.clients, step |-> 1]
    BY <1>2 DEF Copy
  <2>3. h.focused \in Tiles!Monitors /\ h.backend \in BOOLEAN /\ h.clients \in Clients
    BY DEF Copy
  <2>4. k \in Copy
    BY <1>1, <2>1, <2>2, <2>3 DEF Copy
  <2> QED
    BY <2>2, <2>4
<1>4. CopyFollows(hyprland, q, k)
  BY <1>3 DEF CopyFollows, o
<1> QED
  BY <1>3, <1>4 DEF k

LEMMA PollFollows ==
    ASSUME Follows, NEW n \in 1..Len(events), Tiles!PollEvents(n)
    PROVE  Follows'
<1> DEFINE q == SubSeq(events, 1, n)
           h == Tiles!AfterLines(q)[n]
           t == SubSeq(events, n + 1, Len(events))
<1>1. /\ CopyFollows(hyprland, events, hypr) /\ RowFollows(hypr, row)
      /\ hypr.backend /\ hypr.step = 0
  BY DEF Follows, Tiles!PollEvents, Tiles!PollFree
<1>2. Taken(hyprland, hypr, t, h)
  BY <1>1, SomeTaken
<1>3. /\ hyprland' = hyprland /\ events' = t
      /\ IF Tiles!BatchResult(q) = "structural"
         THEN hypr' = Tiles!ReadWorkspaces(h) /\ row' = row
         ELSE hypr' = h /\ row' = [row EXCEPT !.redraw = TRUE]
  BY DEF Tiles!PollEvents, Tiles!Redrawn
<1>4. /\ h \in Copy /\ t \in Seq(Wire) /\ h.clients = hypr.clients /\ h.backend = hypr.backend
      /\ h.step = hypr.step /\ h.occupied = hypr.occupied
      /\ Orderly(t, hyprland.focused, hyprland.active)
      /\ Arrives(t, h.focused, h.by, hyprland.focused, hyprland.active)
  BY <1>2 DEF Taken
<1>5. Tiles!BatchResult(q) # "structural" => (HasWindow(events) => HasWindow(t))
  <2> SUFFICES ASSUME Tiles!BatchResult(q) # "structural", HasWindow(events) PROVE HasWindow(t)
    OBVIOUS
  <2>1. events \in Seq(Wire) /\ Len(events) \in Nat
    BY <1>1 DEF CopyFollows
  <2>2. /\ \A i \in 1..n : events[i] \in Wire
        /\ \A i \in (n + 1)..Len(events) : events[i] \in Wire
    BY <2>1
  <2>3. n \in Int /\ n \in Nat /\ n >= 1 /\ n <= Len(events) /\ Len(events) \in Int
    BY <2>1
  <2>4. /\ Len(q) = n /\ q \in Seq(Wire) /\ \A i \in 1..n : q[i] = events[i]
    <3>1. /\ q \in Seq(Wire) /\ Len(q) = (IF 1 <= n THEN n - 1 + 1 ELSE 0)
          /\ \A i \in 1..(n - 1 + 1) : q[i] = events[1 + i - 1]
      BY <2>2, <2>3, SubSeqProperties
    <3> HIDE DEF q
    <3> QED
      BY <2>3, <3>1
  <2>5. /\ Len(t) = Len(events) - n /\ \A i \in 1..(Len(events) - n) : t[i] = events[n + i]
    <3>1. /\ Len(t) = (IF n + 1 <= Len(events) THEN Len(events) - (n + 1) + 1 ELSE 0)
          /\ \A i \in 1..(Len(events) - (n + 1) + 1) : t[i] = events[(n + 1) + i - 1]
      BY <2>2, <2>3, SubSeqProperties
    <3> HIDE DEF t
    <3>2. Len(events) - (n + 1) + 1 = Len(events) - n /\ \A i \in Int : (n + 1) + i - 1 = n + i
      BY <2>3
    <3>3. Len(t) = Len(events) - n
      BY <2>3, <3>1
    <3>4. ASSUME NEW i \in 1..(Len(events) - n) PROVE t[i] = events[n + i]
      <4>1. i \in Int /\ (n + 1) + i - 1 = n + i
        BY <2>3
      <4> QED
        BY <3>1, <3>2, <4>1
    <3> QED
      BY <3>3, <3>4
  <2>6. DOMAIN q = 1..n
    BY <2>4
  <2>7. PICK i \in 1..Len(events) : events[i].ev = "window"
    BY DEF HasWindow
  <2> HIDE DEF q, t
  <2>8. ~(i <= n)
    BY <2>3, <2>4, <2>6, <2>7 DEF Tiles!BatchResult
  <2>9. i - n \in 1..(Len(events) - n) /\ n + (i - n) = i
    BY <2>3, <2>8
  <2> QED
    BY <2>5, <2>7, <2>9 DEF HasWindow
<1> HIDE DEF q, h, t
<1>6. CASE Tiles!BatchResult(q) = "structural"
  <2>1. CopyFollows(hyprland, t, Tiles!ReadWorkspaces(h)) /\ Tiles!ReadWorkspaces(h).step = 1
    BY <1>1, <1>4, RefreshFollows
  <2>2. RowFollows(Tiles!ReadWorkspaces(h), row)
    BY <1>1, <2>1 DEF RowFollows
  <2>3. /\ hyprland' = hyprland /\ events' = t /\ row' = row
        /\ hypr' = Tiles!ReadWorkspaces(h)
    BY <1>3, <1>6
  <2> QED
    BY <2>1, <2>2, <2>3 DEF Follows
<1>7. CASE Tiles!BatchResult(q) # "structural"
  <2>1. CopyFollows(hyprland, t, h)
    BY <1>1, <1>4, <1>5, <1>7 DEF CopyFollows
  <2>2. RowFollows(h, [row EXCEPT !.redraw = TRUE])
    <3>1. "redraw" \in DOMAIN row
      BY <1>1 DEF RowFollows
    <3> QED
      BY <3>1, RedrawnFollows
  <2>3. /\ hyprland' = hyprland /\ events' = t /\ row' = [row EXCEPT !.redraw = TRUE]
        /\ hypr' = h
    BY <1>3, <1>7
  <2> QED
    BY <2>1, <2>2, <2>3 DEF Follows
<1> QED
  BY <1>6, <1>7

LEMMA MonitorsTyped ==
    ASSUME NEW h \in Copy, NEW f \in Tiles!Monitors,
           NEW b \in Actives
    PROVE  LET k == [h EXCEPT !.by = b, !.focused = f, !.step = 2]
           IN  /\ k \in Copy /\ k.by = b /\ k.focused = f /\ k.step = 2
               /\ k.occupied = h.occupied /\ k.backend = h.backend /\ k.clients = h.clients
<1>1. 2 \in Steps
  BY DEF Steps
<1> QED
  BY <1>1 DEF Copy

LEMMA RunsFollows ==
    ASSUME Follows, NEW cmd \in Commands, Tiles!Runs(cmd), hypr' = hypr, row' = row
    PROVE  Follows'
<1>1. /\ hyprland' = Tiles!Effect(hyprland, cmd)
      /\ events' = IF hypr.backend THEN events \o Tiles!Lines(hyprland, cmd) ELSE events
  BY DEF Tiles!Runs
<1>2. CopyFollows(Tiles!Effect(hyprland, cmd),
                  IF hypr.backend THEN events \o Tiles!Lines(hyprland, cmd) ELSE events, hypr)
  BY EffectFollows DEF Follows
<1>3. CopyFollows(hyprland', events', hypr)
  BY <1>1, <1>2
<1> QED
  BY <1>3 DEF Follows

LEMMA OpensFollows ==
    ASSUME Follows, NEW x \in Windows, Tiles!WindowOpens(x)
    PROVE  Follows'
<1> DEFINE v == hyprland.active[hyprland.focused]
<1>1. CopyFollows(hyprland, events, hypr)
  BY DEF Follows
<1>2. v \in Places
  BY <1>1, CopyTyped DEF Desktop, Places
<1>3. /\ hyprland' = [hyprland EXCEPT !.at[x] = v, !.read = FALSE]
      /\ events' = IF hypr.backend THEN events \o Tiles!WindowLine ELSE events
      /\ hypr' = hypr /\ row' = row
  BY DEF Tiles!WindowOpens
<1> HIDE DEF v
<1>4. CopyFollows([hyprland EXCEPT !.at[x] = v, !.read = FALSE],
                  IF hypr.backend THEN events \o Tiles!WindowLine ELSE events, hypr)
  BY <1>1, <1>2, WindowFollows
<1>5. CopyFollows(hyprland', events', hypr)
  BY <1>3, <1>4
<1> QED
  BY <1>3, <1>5 DEF Follows

LEMMA ReordersFollows == Follows /\ Tiles!Reorders => Follows'
<1> SUFFICES ASSUME Follows, Tiles!Reorders PROVE Follows'
  OBVIOUS
<1> DEFINE d == [hyprland EXCEPT !.order = ~hyprland.order, !.read = FALSE]
<1>1. CopyFollows(hyprland, events, hypr) /\ hyprland \in Desktop
  BY CopyTyped DEF Follows
<1>2. /\ hyprland' = d /\ events' = events /\ hypr' = hypr /\ row' = row
  BY DEF Tiles!Reorders
<1>3. /\ d \in Desktop /\ d.focused = hyprland.focused /\ d.active = hyprland.active
      /\ d.at = hyprland.at /\ d.read = FALSE
  BY <1>1 DEF Desktop
<1> HIDE DEF d
<1>4. CopyFollows(d, events, hypr)
  BY <1>1, <1>3 DEF CopyFollows, Owned
<1> QED
  BY <1>2, <1>4 DEF Follows

LEMMA MonitorsFollow == Follows /\ Tiles!ReadMonitors => Follows'
<1> SUFFICES ASSUME Follows, Tiles!ReadMonitors PROVE Follows'
  OBVIOUS
<1> DEFINE h == [hypr EXCEPT !.by = hyprland.active, !.focused = hyprland.focused, !.step = 2]
<1>1. /\ CopyFollows(hyprland, events, hypr) /\ RowFollows(hypr, row)
      /\ hyprland \in Desktop /\ hypr \in Copy
  BY CopyTyped DEF Follows
<1>2. hyprland' = hyprland /\ events' = events /\ hypr' = h /\ row' = row
  BY DEF Tiles!ReadMonitors
<1>3. /\ hyprland.active \in Actives
      /\ hyprland.focused \in Tiles!Monitors
  BY <1>1 DEF Desktop, Actives
<1>4. /\ h \in Copy /\ h.by = hyprland.active /\ h.focused = hyprland.focused /\ h.step = 2
      /\ h.occupied = hypr.occupied /\ h.backend = hypr.backend /\ h.clients = hypr.clients
  BY <1>1, <1>3, MonitorsTyped
<1> HIDE DEF h
<1>5. h.backend => Arrives(events, hyprland.focused, hyprland.active, hyprland.focused, hyprland.active)
  BY <1>1, <1>4, ArrivesRead DEF CopyFollows
<1>6. CopyFollows(hyprland, events, h)
  BY <1>1, <1>4, <1>5 DEF CopyFollows
<1>7. RowFollows(h, row)
  BY <1>1, <1>4 DEF RowFollows
<1> QED
  BY <1>2, <1>6, <1>7 DEF Follows

\* The clients are read: at the end of a refresh, or once a second.
LEMMA ClientsRead ==
    ASSUME NEW c, CopyFollows(hyprland, events, hypr), hypr.step # 1,
           NEW s \in Steps, NEW b \in BOOLEAN, c = [hyprland EXCEPT !.read = b]
    PROVE  CopyFollows(c, events, [hypr EXCEPT !.clients = Tiles!ClientsOf(hyprland), !.step = s])
<1> DEFINE l == Tiles!ClientsOf(hyprland)
           h == [hypr EXCEPT !.clients = l, !.step = s]
<1>1. hyprland \in Desktop /\ hypr \in Copy /\ l \in Clients
  BY CopyTyped
<1>2. /\ c \in Desktop /\ c.focused = hyprland.focused /\ c.active = hyprland.active
      /\ c.at = hyprland.at /\ c.order = hyprland.order
  BY <1>1 DEF Desktop
<1>3. Tiles!ClientsOf(c) = l
  BY <1>2 DEF Tiles!ClientsOf
<1> HIDE DEF l
<1>4. /\ h \in Copy /\ h.clients = l /\ h.step = s /\ h.by = hypr.by /\ h.focused = hypr.focused
      /\ h.occupied = hypr.occupied /\ h.backend = hypr.backend
  <2>1. hypr \in Copy /\ l \in Clients
    BY <1>1
  <2> QED
    BY <2>1 DEF Copy
<1> HIDE DEF h
<1>5. Owned(c) /\ events \in Seq(Wire)
  BY <1>2 DEF CopyFollows, Owned
<1>6. /\ h.backend => Orderly(events, c.focused, c.active)
      /\ h.backend => Arrives(events, h.focused, h.by, c.focused, c.active)
      /\ h.backend => h.occupied = Tiles!Occupied(c.at) \/ HasWindow(events)
  BY <1>2, <1>4 DEF CopyFollows
<1>7. h.clients = Tiles!ClientsOf(c)
  BY <1>3, <1>4
<1>8. CopyFollows(c, events, h)
  BY <1>2, <1>4, <1>5, <1>6, <1>7 DEF CopyFollows
<1> QED
  BY <1>8 DEF h, l

LEMMA ClientsFollow == Follows /\ Tiles!ReadClients => Follows'
<1> SUFFICES ASSUME Follows, Tiles!ReadClients PROVE Follows'
  OBVIOUS
<1> DEFINE h == [hypr EXCEPT !.clients = Tiles!ClientsOf(hyprland), !.step = 0]
<1>1. /\ CopyFollows(hyprland, events, hypr) /\ "redraw" \in DOMAIN row /\ hyprland \in Desktop
  BY CopyTyped DEF Follows, RowFollows
<1>2. /\ hypr.step = 2 /\ hyprland' = hyprland /\ events' = events /\ hypr' = h
      /\ row' = [row EXCEPT !.redraw = TRUE]
  BY DEF Tiles!ReadClients, Tiles!Redrawn
<1>3. hyprland.read \in BOOLEAN /\ hyprland = [hyprland EXCEPT !.read = hyprland.read]
  BY <1>1 DEF Desktop
<1>4. 0 \in Steps /\ 0 # 1 /\ hypr.step # 1
  BY <1>2 DEF Steps
<1>5. CopyFollows(hyprland, events, h)
  BY <1>1, <1>3, <1>4, ClientsRead
<1> HIDE DEF h
<1>6. RowFollows(h, row')
  BY <1>1, <1>2, RedrawnFollows
<1> QED
  BY <1>2, <1>5, <1>6 DEF Follows

LEMMA TickFollows == Follows /\ Tiles!TimerTick => Follows'
<1> SUFFICES ASSUME Follows, Tiles!TimerTick PROVE Follows'
  OBVIOUS
<1> DEFINE l == Tiles!ClientsOf(hyprland)
           h == [hypr EXCEPT !.clients = l, !.step = 0]
           d == [hyprland EXCEPT !.read = TRUE]
<1>1. /\ CopyFollows(hyprland, events, hypr) /\ RowFollows(hypr, row)
      /\ hyprland \in Desktop /\ hypr \in Copy
  BY CopyTyped DEF Follows
<1>2. /\ hypr.step = 0 /\ hyprland' = d /\ events' = events
      /\ IF l = hypr.clients THEN hypr' = hypr /\ row' = row
         ELSE hypr' = [hypr EXCEPT !.clients = l] /\ row' = [row EXCEPT !.redraw = TRUE]
  BY DEF Tiles!TimerTick, Tiles!Redrawn, Tiles!PollFree
<1>3. 0 \in Steps /\ TRUE \in BOOLEAN
  BY DEF Steps
<1>4. CopyFollows(d, events, h)
  <2>1. d = [hyprland EXCEPT !.read = TRUE] /\ hypr.step # 1
    BY <1>2
  <2> HIDE DEF d
  <2> QED
    BY <1>1, <1>3, <2>1, ClientsRead
<1> HIDE DEF l, d
<1>5. [hypr EXCEPT !.clients = l] = h /\ (l = hypr.clients => hypr = h)
  BY <1>1, <1>2 DEF Copy
<1> HIDE DEF h
<1>6. hyprland' = d /\ events' = events /\ hypr' = h
  BY <1>2, <1>5
<1>7. RowFollows(h, row')
  <2>1. CASE l = hypr.clients
    BY <1>1, <1>2, <1>5, <2>1
  <2>2. CASE l # hypr.clients
    <3>1. "redraw" \in DOMAIN row
      BY <1>1 DEF RowFollows
    <3> QED
      BY <1>2, <2>2, <3>1, RedrawnFollows
  <2> QED
    BY <2>1, <2>2
<1> QED
  BY <1>4, <1>6, <1>7 DEF Follows

LEMMA DrawFollows == Follows /\ Tiles!DrawRow => Follows'
<1> SUFFICES ASSUME Follows, Tiles!DrawRow PROVE Follows'
  OBVIOUS
<1>1. /\ row' = Tiles!Drawn(hypr)
      /\ hyprland' = hyprland /\ events' = events /\ hypr' = hypr
  BY DEF Tiles!DrawRow
<1>2. RowFollows(hypr, Tiles!Drawn(hypr))
  BY DrawnFollows
<1>3. RowFollows(hypr, row')
  BY <1>1, <1>2
<1> QED
  BY <1>1, <1>3 DEF Follows

LEMMA DisconnectFollows == Follows /\ Tiles!Disconnected => Follows'
<1> SUFFICES ASSUME Follows, Tiles!Disconnected PROVE Follows'
  OBVIOUS
<1> DEFINE h == [hypr EXCEPT !.backend = FALSE]
<1>1. /\ CopyFollows(hyprland, events, hypr) /\ RowFollows(hypr, row)
      /\ hyprland \in Desktop /\ hypr \in Copy
  BY CopyTyped DEF Follows
<1>2. hyprland' = hyprland /\ events' = <<>> /\ hypr' = h /\ row' = row
  BY DEF Tiles!Disconnected
<1>3. h \in Copy /\ h.backend = FALSE /\ h.clients = hypr.clients
  BY <1>1 DEF Copy
<1> HIDE DEF h
<1>4. <<>> \in Seq(Wire)
  OBVIOUS
<1>5. CopyFollows(hyprland, <<>>, h)
  BY <1>1, <1>3, <1>4 DEF CopyFollows
<1>6. RowFollows(h, row)
  BY <1>1, <1>3 DEF RowFollows
<1> QED
  BY <1>2, <1>5, <1>6 DEF Follows

\* Opening the overview reads everything again.
LEMMA OpeningFollows ==
    ASSUME Follows, hyprland' = hyprland, events' = events, row' = row,
           hypr' = Tiles!ReadWorkspaces(hypr)
    PROVE  Follows'
<1>1. /\ CopyFollows(hyprland, events, hypr) /\ RowFollows(hypr, row)
      /\ hypr \in Copy /\ events \in Seq(Wire)
  BY CopyTyped DEF Follows
<1>2. hypr.backend => Orderly(events, hyprland.focused, hyprland.active)
  BY <1>1 DEF CopyFollows
<1>3. CopyFollows(hyprland, events, Tiles!ReadWorkspaces(hypr)) /\ Tiles!ReadWorkspaces(hypr).step = 1
  BY <1>1, <1>2, RefreshFollows
<1>4. RowFollows(Tiles!ReadWorkspaces(hypr), row)
  BY <1>1, <1>3 DEF RowFollows
<1> QED
  BY <1>3, <1>4 DEF Follows

LEMMA FollowsInitially == Tiles!HyInit => Follows
<1> SUFFICES ASSUME Tiles!HyInit PROVE Follows
  OBVIOUS
<1> DEFINE o == Tiles!Occupied(hyprland.at)
           l == Tiles!ClientsOf(hyprland)
           f == Tiles!First
<1>1. /\ hyprland = [focused |-> 1, active |-> f, at |-> [x \in Windows |-> 1],
                     order |-> FALSE, read |-> TRUE]
      /\ events = <<>> /\ row = Tiles!Drawn(hypr)
      /\ hypr = [by |-> f, occupied |-> o, focused |-> 1, backend |-> TRUE,
                 clients |-> l, step |-> 0]
  BY DEF Tiles!HyInit
<1>2. /\ 1 \in Tiles!Monitors /\ f \in [Tiles!Monitors -> Tiles!Workspaces] /\ f \in Actives
      /\ \A m \in Tiles!Monitors : Tiles!MonitorOf(f[m]) = m
  <2>1. \A m \in Tiles!Monitors : f[m] \in Tiles!Workspaces
    BY Numbering
  <2>2. f = [m \in Tiles!Monitors |-> f[m]]
    BY DEF Tiles!First
  <2> HIDE DEF f
  <2>3. f \in [Tiles!Monitors -> Tiles!Workspaces]
    BY <2>1, <2>2
  <2> QED
    BY <2>3, Numbering DEF Actives, f
<1>3. [x \in Windows |-> 1] \in [Windows -> Places]
  BY Numbering DEF Places
<1> HIDE DEF f
<1>4. hyprland \in Desktop /\ Owned(hyprland)
  BY <1>1, <1>2, <1>3 DEF Desktop, Owned
<1>5. l \in Clients /\ o \in SUBSET Tiles!Workspaces /\ 0 \in Steps
  BY <1>4 DEF Tiles!ClientsOf, Tiles!Occupied, Clients, Desktop, Steps
<1> HIDE DEF l, o
<1>6. hypr \in Copy
  BY <1>1, <1>2, <1>5 DEF Copy
<1>7. events \in Seq(Wire) /\ Len(events) = 0
  BY <1>1
<1>8. Orderly(events, hyprland.focused, hyprland.active)
  BY <1>7 DEF Orderly
<1>9. Arrives(events, hyprland.focused, hyprland.active, hyprland.focused, hyprland.active)
  BY <1>7, <1>8, ArrivesRead
<1>10. hypr.focused = hyprland.focused /\ hypr.by = hyprland.active /\ hypr.occupied = o /\ hypr.clients = l
  BY <1>1
<1>11. CopyFollows(hyprland, events, hypr)
  BY <1>4, <1>6, <1>7, <1>8, <1>9, <1>10 DEF CopyFollows, l, o
<1>12. RowFollows(hypr, row)
  BY <1>1, DrawnFollows
<1> QED
  BY <1>11, <1>12 DEF Follows

\* A window that is parked on the way of a script is taken from there later on.
Parks(cmd, x) == cmd.do = "move" /\ cmd.x = x /\ cmd.w = Tiles!Temp
Unparks(cmd, x) ==
    \/ cmd.do = "move" /\ cmd.x = x /\ cmd.w # Tiles!Temp
    \/ cmd.do = "close" /\ cmd.x = x
Covers(s, x) == \E i \in 1..Len(s) : Unparks(s[i], x)
Retrieved(s) ==
    \A x \in Windows : \A i \in 1..Len(s) :
        Parks(s[i], x) => \E j \in 1..Len(s) : j > i /\ Unparks(s[j], x)
Parked(c, s) ==
    /\ s \in Seq(Commands) /\ Retrieved(s)
    /\ \A x \in Windows : c.at[x] = Tiles!Temp => Covers(s, x)

\* A script that parks nothing.
Sends(s) == s \in Seq(Commands) /\ \A i \in 1..Len(s) : \A x \in Windows : ~Parks(s[i], x)

LEMMA ParkedRuns ==
    ASSUME NEW c \in Desktop, NEW s, Parked(c, s), s # <<>>
    PROVE  Parked(Tiles!Effect(c, Head(s)), Tail(s))
<1> DEFINE t == Tail(s)
           cmd == s[1]
           d == Tiles!Effect(c, cmd)
<1>1. s \in Seq(Commands) /\ Retrieved(s)
  BY DEF Parked
<1>2. /\ t \in Seq(Commands) /\ Len(s) \in Nat \ {0} /\ Len(t) = Len(s) - 1
      /\ Head(s) = cmd /\ cmd \in Commands /\ \A i \in 1..Len(t) : t[i] = s[i + 1]
  BY <1>1, Shrinks
<1> HIDE DEF t
<1>3. /\ \A j \in 1..Len(s) : j # 1 => j - 1 \in 1..Len(t) /\ t[j - 1] = s[j]
      /\ \A i \in 1..Len(t) : i + 1 \in 1..Len(s)
      /\ 1 \in 1..Len(s)
  <2>1. ASSUME NEW j \in 1..Len(s), j # 1 PROVE j - 1 \in 1..Len(t) /\ t[j - 1] = s[j]
    <3>1. j - 1 \in 1..Len(t) /\ j - 1 + 1 = j
      BY <1>2, <2>1
    <3> QED
      BY <1>2, <3>1
  <2>2. \A i \in 1..Len(t) : i + 1 \in 1..Len(s)
    BY <1>2
  <2>3. 1 \in 1..Len(s)
    BY <1>2
  <2> QED
    BY <2>1, <2>2, <2>3
<1>4. ASSUME NEW x \in Windows, Covers(s, x), ~Unparks(cmd, x) PROVE Covers(t, x)
  BY <1>3, <1>4 DEF Covers
<1>5. ASSUME NEW x \in Windows, Parks(cmd, x) PROVE Covers(t, x)
  <2>1. PICK j \in 1..Len(s) : j > 1 /\ Unparks(s[j], x)
    BY <1>1, <1>3, <1>5 DEF Retrieved
  <2> QED
    BY <1>3, <2>1 DEF Covers
<1>6. Retrieved(t)
  <2> SUFFICES ASSUME NEW x \in Windows, NEW i \in 1..Len(t), Parks(t[i], x)
               PROVE  \E j \in 1..Len(t) : j > i /\ Unparks(t[j], x)
    BY DEF Retrieved
  <2>1. i + 1 \in 1..Len(s) /\ Parks(s[i + 1], x)
    BY <1>2, <1>3
  <2>2. PICK j \in 1..Len(s) : j > i + 1 /\ Unparks(s[j], x)
    BY <1>1, <2>1 DEF Retrieved
  <2>3. j # 1 /\ j - 1 > i
    BY <1>2, <2>2
  <2> QED
    BY <1>3, <2>2, <2>3
<1>7. ASSUME NEW x \in Windows, d.at[x] = Tiles!Temp PROVE Covers(t, x)
  <2>1. c.at \in [Windows -> Places]
    BY DEF Desktop
  <2>2. c.at[x] = Tiles!Temp => Covers(s, x)
    BY DEF Parked
  <2>3. Tiles!Temp # Tiles!Nowhere /\ Tiles!Nowhere = 0 /\ Tiles!Temp = -1
    BY DEF Tiles!Temp, Tiles!Nowhere
  <2>4. CASE cmd.do = "focus"
    <3>1. d.at = c.at /\ ~Unparks(cmd, x)
      <4>1. d = Tiles!FocusOn(c, cmd.w)
        BY <2>4 DEF Tiles!Effect
      <4>2. Tiles!FocusOn(c, cmd.w).at = c.at
        BY DEF Tiles!FocusOn, Desktop
      <4> QED
        BY <2>4, <4>1, <4>2 DEF Unparks
    <3> QED
      BY <1>4, <1>7, <2>2, <3>1
  <2>5. CASE cmd.do # "focus"
    <3> DEFINE v == IF cmd.do = "move" THEN cmd.w ELSE Tiles!Nowhere
    <3>1. cmd.do \in {"move", "close"} /\ cmd.x \in Windows
      BY <1>2, <2>5, CommandCases
    <3>2. d = Tiles!Moved(c, cmd.x, v)
      BY <2>5, <3>1 DEF Tiles!Effect
    <3>3. CASE cmd.x # x \/ c.at[cmd.x] = Tiles!Nowhere
      <4>1. d.at[x] = c.at[x] /\ (cmd.x # x \/ c.at[x] = Tiles!Nowhere)
        <5> HIDE DEF v, d
        <5>1. c.at[cmd.x] = Tiles!Nowhere => d = c
          BY <3>2 DEF Tiles!Moved
        <5>2. c.at[cmd.x] # Tiles!Nowhere => d.at = [c.at EXCEPT ![cmd.x] = v]
          BY <3>2 DEF Tiles!Moved, Desktop
        <5> QED
          BY <2>1, <3>1, <3>3, <5>1, <5>2
      <4>2. cmd.x # x
        BY <1>7, <2>3, <4>1
      <4>3. ~Unparks(cmd, x)
        BY <4>2 DEF Unparks
      <4> QED
        BY <1>4, <1>7, <2>2, <4>1, <4>3
    <3>4. CASE cmd.x = x /\ c.at[x] # Tiles!Nowhere
      <4>1. d.at[x] = v
        <5> HIDE DEF v, d
        <5>1. d.at = [c.at EXCEPT ![x] = v]
          BY <3>2, <3>4 DEF Tiles!Moved, Desktop
        <5> QED
          BY <2>1, <5>1
      <4>2. cmd.do = "move" /\ cmd.w = Tiles!Temp
        BY <1>7, <2>3, <4>1
      <4> QED
        BY <1>5, <3>4, <4>2 DEF Parks
    <3> QED
      BY <3>3, <3>4
  <2> QED
    BY <2>4, <2>5
<1>8. Parked(d, t)
  BY <1>2, <1>6, <1>7 DEF Parked
<1> QED
  BY <1>2, <1>8 DEF t

LEMMA ParkedStays ==
    ASSUME NEW c, NEW d, NEW s, Parked(c, s),
           \A x \in Windows : d.at[x] = Tiles!Temp => c.at[x] = Tiles!Temp
    PROVE  Parked(d, s)
BY DEF Parked

LEMMA ScriptBegins ==
    ASSUME NEW c, Parked(c, <<>>), NEW s \in Seq(Commands), Retrieved(s)
    PROVE  Parked(c, s)
<1>1. \A x \in Windows : ~Covers(<<>>, x)
  BY DEF Covers
<1> QED
  BY <1>1 DEF Parked

LEMMA SendsRetrieved ==
    ASSUME NEW s, Sends(s)
    PROVE  s \in Seq(Commands) /\ Retrieved(s)
BY DEF Sends, Retrieved

\* A script after another.
LEMMA ScriptsJoin ==
    ASSUME NEW s \in Seq(Commands), NEW t \in Seq(Commands)
    PROVE  /\ s \o t \in Seq(Commands)
           /\ \A x : Covers(s, x) \/ Covers(t, x) => Covers(s \o t, x)
           /\ Sends(s) /\ Sends(t) => Sends(s \o t)
           /\ Sends(t) /\ (\A x \in Windows : Covers(t, x)
                                              \/ \A i \in 1..Len(s) : ~Parks(s[i], x))
                 => Retrieved(s \o t)
<1> DEFINE u == s \o t
<1>1. /\ u \in Seq(Commands) /\ Len(u) = Len(s) + Len(t)
      /\ \A i \in 1..(Len(s) + Len(t)) : u[i] = IF i <= Len(s) THEN s[i] ELSE t[i - Len(s)]
  BY ConcatProperties
<1>2. Len(s) \in Nat /\ Len(t) \in Nat
  OBVIOUS
<1> HIDE DEF u
<1>3. /\ \A i \in 1..Len(s) : i \in 1..Len(u) /\ u[i] = s[i]
      /\ \A i \in 1..Len(t) : i + Len(s) \in 1..Len(u) /\ u[i + Len(s)] = t[i] /\ i + Len(s) > Len(s)
      /\ \A i \in 1..Len(u) : ~(i <= Len(s)) => i - Len(s) \in 1..Len(t) /\ u[i] = t[i - Len(s)]
      /\ \A i \in 1..Len(u) : i <= Len(s) => i \in 1..Len(s) /\ u[i] = s[i]
  <2>1. ASSUME NEW i \in 1..Len(s) PROVE i \in 1..Len(u) /\ u[i] = s[i]
    <3>1. i \in 1..(Len(s) + Len(t)) /\ i <= Len(s)
      BY <1>2
    <3> QED
      BY <1>1, <3>1
  <2>2. ASSUME NEW i \in 1..Len(t)
        PROVE  i + Len(s) \in 1..Len(u) /\ u[i + Len(s)] = t[i] /\ i + Len(s) > Len(s)
    <3>1. /\ i + Len(s) \in 1..(Len(s) + Len(t)) /\ ~(i + Len(s) <= Len(s)) /\ i + Len(s) > Len(s)
          /\ (i + Len(s)) - Len(s) = i
      BY <1>2
    <3> QED
      BY <1>1, <3>1
  <2>3. ASSUME NEW i \in 1..Len(u), ~(i <= Len(s))
        PROVE  i - Len(s) \in 1..Len(t) /\ u[i] = t[i - Len(s)]
    <3>1. i \in 1..(Len(s) + Len(t)) /\ i - Len(s) \in 1..Len(t)
      BY <1>1, <1>2, <2>3
    <3> QED
      BY <1>1, <2>3, <3>1
  <2>4. ASSUME NEW i \in 1..Len(u), i <= Len(s) PROVE i \in 1..Len(s) /\ u[i] = s[i]
    <3>1. i \in 1..(Len(s) + Len(t)) /\ i \in 1..Len(s)
      BY <1>1, <1>2, <2>4
    <3> QED
      BY <1>1, <2>4, <3>1
  <2> QED
    BY <2>1, <2>2, <2>3, <2>4
<1>4. \A x : Covers(s, x) \/ Covers(t, x) => Covers(u, x)
  BY <1>3 DEF Covers
<1>5. Sends(s) /\ Sends(t) => Sends(u)
  BY <1>1, <1>3 DEF Sends
<1>6. ASSUME Sends(t), \A x \in Windows : Covers(t, x) \/ \A i \in 1..Len(s) : ~Parks(s[i], x)
      PROVE  Retrieved(u)
  <2> SUFFICES ASSUME NEW x \in Windows, NEW i \in 1..Len(u), Parks(u[i], x)
               PROVE  \E j \in 1..Len(u) : j > i /\ Unparks(u[j], x)
    BY DEF Retrieved
  <2>1. i <= Len(s)
    BY <1>3, <1>6 DEF Sends
  <2>2. Covers(t, x)
    BY <1>3, <1>6, <2>1
  <2>3. PICK k \in 1..Len(t) : Unparks(t[k], x)
    BY <2>2 DEF Covers
  <2>4. k + Len(s) > i
    BY <1>2, <2>1
  <2> QED
    BY <1>3, <2>3, <2>4
<1> QED
  BY <1>1, <1>4, <1>5, <1>6 DEF u

LEMMA OneCommand ==
    ASSUME NEW cmd \in Commands, \A x \in Windows : ~Parks(cmd, x)
    PROVE  Sends(<<cmd>>)
BY DEF Sends

LEMMA TileCardinality == \A S : Tiles!Cardinality(S) = Cardinality(S)
BY DEF Tiles!Cardinality, Cardinality

LEMMA Listing ==
    ASSUME NEW S \in SUBSET Windows
    PROVE  LET q == Tiles!SetToSeq(S)
               n == Cardinality(S)
           IN  /\ n \in Nat /\ q \in [1..n -> S]
               /\ \A x \in S : \E i \in 1..n : q[i] = x
<1> DEFINE n == Cardinality(S)
           q == Tiles!SetToSeq(S)
<1>0. IsFiniteSet(S)
  BY PanelsAssumption, FS_Subset DEF PanelsAssumption
<1>1. n \in Nat /\ ExistsBijection(1..n, S)
  BY <1>0, FS_CardinalityType
<1>2. PICK f : f \in Bijection(1..n, S)
  BY <1>1 DEF ExistsBijection
<1>3. f \in [1..n -> S] /\ Tiles!IsInjective(f)
  BY <1>2 DEF Bijection, Injection, IsInjective, Tiles!IsInjective
<1>4. q \in [1..n -> S] /\ Tiles!IsInjective(q)
  BY <1>3, TileCardinality DEF Tiles!SetToSeq
<1> HIDE DEF q
<1>5. q \in Injection(1..n, S)
  BY <1>4 DEF Injection, IsInjective, Tiles!IsInjective
<1>6. IsFiniteSet(1..n) /\ Cardinality(1..n) = n
  BY <1>1, FS_Interval
<1>7. q \in Surjection(1..n, S)
  BY <1>0, <1>5, <1>6, FS_Injection
<1> QED
  BY <1>1, <1>4, <1>7 DEF q, Surjection

\* Moving, or closing, all windows of a set.
Moves(s, S) == \A i \in 1..Len(s) : s[i].do = "move" /\ s[i].x \in S

LEMMA MoveAllIs ==
    ASSUME NEW S \in SUBSET Windows, NEW w \in Tiles!Workspaces \union {Tiles!Temp}
    PROVE  LET s == Tiles!MoveAll(S, w)
           IN  /\ s \in Seq(Commands) /\ Moves(s, S)
               /\ w # Tiles!Temp => Sends(s) /\ \A x \in S : Covers(s, x)
<1> DEFINE q == Tiles!SetToSeq(S)
           n == Cardinality(S)
           s == Tiles!MoveAll(S, w)
<1>1. n \in Nat /\ q \in [1..n -> S] /\ \A x \in S : \E i \in 1..n : q[i] = x
  BY Listing
<1>2. s = [i \in 1..n |-> [do |-> "move", x |-> q[i], w |-> w]]
  BY TileCardinality DEF Tiles!MoveAll
<1> HIDE DEF q, n, s
<1>3. \A i \in 1..n : [do |-> "move", x |-> q[i], w |-> w] \in Commands
  BY <1>1 DEF Commands
<1>4. /\ \A i \in 1..n : s[i] = [do |-> "move", x |-> q[i], w |-> w] /\ s[i] \in Commands
      /\ s \in [1..n -> Commands]
  BY <1>2, <1>3
<1>5. s \in Seq(Commands) /\ Len(s) = n
  BY <1>1, <1>4
<1>6. \A i \in 1..Len(s) : s[i].do = "move" /\ s[i].x \in S /\ s[i].w = w /\ s[i].x = q[i]
  BY <1>1, <1>4, <1>5
<1>7. ASSUME w # Tiles!Temp PROVE Sends(s) /\ \A x \in S : Covers(s, x)
  <2>1. Sends(s)
    BY <1>5, <1>6, <1>7 DEF Sends, Parks
  <2>2. \A x \in S : Covers(s, x)
    BY <1>1, <1>5, <1>6, <1>7 DEF Covers, Unparks
  <2> QED
    BY <2>1, <2>2
<1> QED
  BY <1>5, <1>6, <1>7 DEF Moves, s

LEMMA CloseIs ==
    ASSUME NEW S \in SUBSET Windows, NEW h
    PROVE  Sends(Tiles!CloseScript(h, S))
<1> DEFINE q == Tiles!SetToSeq(S)
           n == Cardinality(S)
           s == Tiles!CloseScript(h, S)
<1>1. n \in Nat /\ q \in [1..n -> S]
  BY Listing
<1>2. s = [i \in 1..n |-> [do |-> "close", x |-> q[i]]]
  BY TileCardinality DEF Tiles!CloseScript
<1> HIDE DEF q, n, s
<1>3. \A i \in 1..n : [do |-> "close", x |-> q[i]] \in Commands
  BY <1>1 DEF Commands
<1>4. /\ \A i \in 1..n : s[i] = [do |-> "close", x |-> q[i]] /\ s[i] \in Commands
      /\ s \in [1..n -> Commands]
  BY <1>2, <1>3
<1>5. s \in Seq(Commands) /\ Len(s) = n
  BY <1>1, <1>4
<1>6. Sends(s)
  BY <1>4, <1>5 DEF Sends, Parks
<1> QED
  BY <1>6 DEF s

\* The scripts that the overview and the row send.
LEMMA FocusSends ==
    ASSUME NEW h \in Copy, NEW w \in Tiles!Workspaces, NEW global \in BOOLEAN
    PROVE  Sends(Tiles!FocusScript(h, w, global)) /\ Tiles!Resolve(h, w, global) \in Tiles!Workspaces
<1> DEFINE v == Tiles!Resolve(h, w, global)
           cmd == [do |-> "focus", w |-> v]
<1>1. v \in Tiles!Workspaces
  <2>1. h.focused \in Tiles!Monitors /\ h.by[h.focused] \in Tiles!Workspaces \union {0}
    BY DEF Copy, Actives, Tiles!Nowhere
  <2> QED
    BY <2>1, ResolvedIs
<1> HIDE DEF v
<1>2. cmd \in Commands /\ \A x \in Windows : ~Parks(cmd, x)
  BY <1>1 DEF Commands, Parks
<1>3. Sends(<<cmd>>)
  BY <1>2, OneCommand
<1> QED
  BY <1>1, <1>3 DEF Tiles!FocusScript, v

LEMMA MoveSends ==
    ASSUME NEW h \in Copy, NEW w \in Tiles!Workspaces, NEW x \in Windows
    PROVE  Sends(Tiles!MoveScript(h, x, w))
<1> DEFINE v == Tiles!Resolve(h, w, FALSE)
           cmd == [do |-> "move", x |-> x, w |-> v]
<1>1. v \in Tiles!Workspaces
  BY FocusSends
<1> HIDE DEF v
<1>2. v # Tiles!Temp
  BY <1>1, Numbering DEF Tiles!Temp
<1>3. cmd \in Commands /\ \A y \in Windows : ~Parks(cmd, y)
  BY <1>1, <1>2 DEF Commands, Parks
<1>4. Sends(<<cmd>>)
  BY <1>3, OneCommand
<1> QED
  BY <1>4 DEF Tiles!MoveScript, v

LEMMA NothingSent == Sends(<<>>)
BY DEF Sends

LEMMA InIs == \A at, w : Tiles!In(at, w) \subseteq Windows
BY DEF Tiles!In

LEMMA MoveInSends ==
    ASSUME NEW h \in Copy, NEW w \in Tiles!Workspaces
    PROVE  Sends(Tiles!MoveInScript(h, w))
<1> DEFINE src == Tiles!ActiveId(h)
           dst == Tiles!Resolve(h, w, FALSE)
           a == Tiles!MoveAll(Tiles!In(h.clients.at, src), dst)
           b == Tiles!FocusScript(h, w, FALSE)
<1>1. dst \in Tiles!Workspaces /\ Sends(b)
  BY FocusSends
<1>2. dst # Tiles!Temp
  BY <1>1, Numbering DEF Tiles!Temp
<1> HIDE DEF dst
<1>3. Sends(a)
  BY <1>1, <1>2, InIs, MoveAllIs
<1> HIDE DEF a, b
<1>4. a \in Seq(Commands) /\ b \in Seq(Commands)
  BY <1>1, <1>3 DEF Sends
<1>5. Sends(a \o b)
  BY <1>1, <1>3, <1>4, ScriptsJoin
<1>6. CASE src = Tiles!Nowhere \/ src = dst
  BY <1>6, NothingSent DEF Tiles!MoveInScript, dst
<1>7. CASE ~(src = Tiles!Nowhere \/ src = dst)
  BY <1>5, <1>7 DEF Tiles!MoveInScript, dst, a, b
<1> QED
  BY <1>6, <1>7

\* A swap brings back what it has parked.
LEMMA SwapRetrieves ==
    ASSUME NEW h \in Copy, NEW w \in Tiles!Workspaces
    PROVE  LET s == Tiles!SwapScript(h, w) IN s \in Seq(Commands) /\ Retrieved(s)
<1> DEFINE src == Tiles!ActiveId(h)
           dst == Tiles!Resolve(h, w, FALSE)
           here == Tiles!In(h.clients.at, src)
           there == Tiles!In(h.clients.at, dst)
           a == Tiles!MoveAll(here, Tiles!Temp)
           b == Tiles!MoveAll(there, src)
           c == Tiles!MoveAll(here, dst)
           f == Tiles!FocusScript(h, w, FALSE)
           none == src = Tiles!Nowhere \/ src = dst \/ here \union there = {}
<1>1. dst \in Tiles!Workspaces /\ Sends(f)
  BY FocusSends
<1>2. src \in Tiles!Workspaces \union {Tiles!Nowhere}
  BY DEF Copy, Actives, Tiles!ActiveId
<1>3. dst # Tiles!Temp /\ (src # Tiles!Nowhere => src \in Tiles!Workspaces /\ src # Tiles!Temp)
  BY <1>1, <1>2, Numbering DEF Tiles!Temp
<1>4. here \in SUBSET Windows /\ there \in SUBSET Windows
  BY InIs
<1>5. Tiles!SwapScript(h, w) = IF none THEN <<>> ELSE a \o b \o c \o f
  BY DEF Tiles!SwapScript
<1> HIDE DEF src, dst, here, there, f
<1>6. CASE none
  BY <1>5, <1>6, NothingSent, SendsRetrieved
<1>7. CASE ~none
  <2>1. src \in Tiles!Workspaces /\ src # Tiles!Temp
    BY <1>3, <1>7
  <2>2. Sends(b)
    BY <1>4, <2>1, MoveAllIs
  <2>3. Sends(c) /\ \A x \in here : Covers(c, x)
    BY <1>1, <1>3, <1>4, MoveAllIs
  <2>4. a \in Seq(Commands) /\ Moves(a, here)
    BY <1>4, MoveAllIs
  <2> HIDE DEF a, b, c
  <2>5. b \in Seq(Commands) /\ c \in Seq(Commands) /\ f \in Seq(Commands)
    BY <1>1, <2>2, <2>3 DEF Sends
  <2>6. Sends(c \o f) /\ c \o f \in Seq(Commands) /\ \A x \in here : Covers(c \o f, x)
    BY <1>1, <2>3, <2>5, ScriptsJoin
  <2>7. Sends(b \o (c \o f)) /\ b \o (c \o f) \in Seq(Commands)
        /\ \A x \in here : Covers(b \o (c \o f), x)
    BY <2>2, <2>5, <2>6, ScriptsJoin
  <2>8. \A x \in Windows : Covers(b \o (c \o f), x) \/ \A i \in 1..Len(a) : ~Parks(a[i], x)
    BY <2>4, <2>7 DEF Parks, Moves
  <2>9. Retrieved(a \o (b \o (c \o f))) /\ a \o (b \o (c \o f)) \in Seq(Commands)
    BY <2>4, <2>7, <2>8, ScriptsJoin
  <2>10. a \o b \o c \o f = a \o (b \o (c \o f))
    <3>1. a \o b \in Seq(Commands)
      BY <2>4, <2>5, ConcatProperties
    <3>2. ((a \o b) \o c) \o f = (a \o b) \o (c \o f)
      BY <2>5, <3>1, ConcatAssociative
    <3>3. (a \o b) \o (c \o f) = a \o (b \o (c \o f))
      BY <2>4, <2>5, <2>6, ConcatAssociative
    <3> QED
      BY <3>2, <3>3
  <2> QED
    BY <1>5, <1>7, <2>9, <2>10
<1> QED
  BY <1>6, <1>7

\* The overview, with the copy, its row and the scripts.
OverviewState ==
    [mode : {"closed", "opening", "open", "closing"}, group : Int, selected : Tiles!Workspaces,
     drag : Windows \union {Tiles!NoWindow}, from : Places, tiles : [Windows -> Places]]
TilesInv ==
    /\ Follows /\ Parked(hyprland, script) /\ (script # <<>> => hypr.step = 0)
    /\ ov \in OverviewState

LEMMA EffectParks ==
    ASSUME NEW c \in Desktop, NEW cmd \in Commands, \A x \in Windows : ~Parks(cmd, x),
           NEW x \in Windows, Tiles!Effect(c, cmd).at[x] = Tiles!Temp
    PROVE  c.at[x] = Tiles!Temp
<1> DEFINE d == Tiles!Effect(c, cmd)
           v == IF cmd.do = "move" THEN cmd.w ELSE Tiles!Nowhere
<1>1. c.at \in [Windows -> Places] /\ Tiles!Temp # Tiles!Nowhere
  BY DEF Desktop, Tiles!Temp, Tiles!Nowhere
<1>2. CASE cmd.do = "focus"
  <2>1. d = Tiles!FocusOn(c, cmd.w)
    BY <1>2 DEF Tiles!Effect
  <2>2. Tiles!FocusOn(c, cmd.w).at = c.at
    BY DEF Tiles!FocusOn, Desktop
  <2> QED
    BY <2>1, <2>2
<1>3. CASE cmd.do # "focus"
  <2>1. cmd.do \in {"move", "close"} /\ cmd.x \in Windows
    BY <1>3, CommandCases
  <2>2. v # Tiles!Temp
    BY <1>1, <2>1 DEF Parks
  <2>3. d = Tiles!Moved(c, cmd.x, v)
    BY <1>3, <2>1 DEF Tiles!Effect
  <2>4. d.at[x] = Tiles!Temp
    OBVIOUS
  <2> HIDE DEF v, d
  <2>5. c.at[cmd.x] = Tiles!Nowhere => d = c
    BY <2>3 DEF Tiles!Moved
  <2>6. c.at[cmd.x] # Tiles!Nowhere => d.at = [c.at EXCEPT ![cmd.x] = v]
    BY <2>3 DEF Tiles!Moved, Desktop
  <2> QED
    BY <1>1, <2>1, <2>2, <2>4, <2>5, <2>6
<1> QED
  BY <1>2, <1>3

\* A script begins when the poll thread waits for nothing.
LEMMA TilesScript ==
    ASSUME TilesInv, Tiles!PollFree, UNCHANGED <<hyprland, events, hypr, row>>,
           NEW s, script' = s, s \in Seq(Commands), Retrieved(s), ov' \in OverviewState
    PROVE  TilesInv'
<1>1. script = <<>> /\ hypr.step = 0
  BY DEF Tiles!PollFree
<1>2. Parked(hyprland, <<>>)
  BY <1>1 DEF TilesInv
<1>3. Parked(hyprland, s)
  BY <1>2, ScriptBegins
<1>4. Follows'
  BY DEF Follows, TilesInv
<1> QED
  BY <1>1, <1>3, <1>4 DEF TilesInv

\* Or stays as it is.
LEMMA TilesStay ==
    ASSUME TilesInv, Follows', script' = script, ov' \in OverviewState,
           script # <<>> => hypr'.step = 0,
           \A x \in Windows : hyprland'.at[x] = Tiles!Temp => hyprland.at[x] = Tiles!Temp
    PROVE  TilesInv'
<1>1. Parked(hyprland', script)
  BY ParkedStays DEF TilesInv
<1> QED
  BY <1>1 DEF TilesInv

LEMMA TilesTyped ==
    ASSUME TilesInv
    PROVE  /\ Follows /\ hyprland \in Desktop /\ hypr \in Copy /\ script \in Seq(Commands)
           /\ Parked(hyprland, script) /\ (script # <<>> => hypr.step = 0)
           /\ ov \in OverviewState
BY CopyTyped DEF TilesInv, Follows, Parked

LEMMA RunsKeepsTiles == TilesInv /\ Tiles!HyprlandRuns /\ ov' = ov => TilesInv'
<1> SUFFICES ASSUME TilesInv, Tiles!HyprlandRuns, ov' = ov PROVE TilesInv'
  OBVIOUS
<1> DEFINE cmd == Head(script)
<1>1. /\ script # <<>> /\ Tiles!Runs(cmd) /\ script' = Tail(script) /\ hypr' = hypr /\ row' = row
  BY DEF Tiles!HyprlandRuns
<1>2. /\ Follows /\ hyprland \in Desktop /\ script \in Seq(Commands) /\ Parked(hyprland, script)
      /\ hypr.step = 0
  BY <1>1, TilesTyped
<1>3. cmd \in Commands
  BY <1>1, <1>2, Shrinks
<1>4. Follows'
  BY <1>1, <1>2, <1>3, RunsFollows
<1>5. Parked(Tiles!Effect(hyprland, cmd), Tail(script))
  BY <1>1, <1>2, ParkedRuns
<1>6. hyprland' = Tiles!Effect(hyprland, cmd)
  BY <1>1 DEF Tiles!Runs
<1> HIDE DEF cmd
<1> QED
  BY <1>1, <1>2, <1>4, <1>5, <1>6 DEF TilesInv

LEMMA CommandMovesTiles ==
    ASSUME TilesInv, NEW cmd \in Commands, \A x \in Windows : ~Parks(cmd, x), Tiles!Runs(cmd),
           UNCHANGED <<hypr, script, row, ov>>
    PROVE  TilesInv'
<1>1. Follows /\ hyprland \in Desktop /\ ov \in OverviewState /\ (script # <<>> => hypr.step = 0)
  BY TilesTyped
<1>2. Follows'
  BY <1>1, RunsFollows
<1>3. hyprland' = Tiles!Effect(hyprland, cmd)
  BY DEF Tiles!Runs
<1>4. \A x \in Windows : hyprland'.at[x] = Tiles!Temp => hyprland.at[x] = Tiles!Temp
  BY <1>1, <1>3, EffectParks
<1> QED
  BY <1>1, <1>2, <1>4, TilesStay

LEMMA MovesKeepTiles == TilesInv /\ Tiles!HyprlandMoves /\ ov' = ov => TilesInv'
<1> SUFFICES ASSUME TilesInv, Tiles!HyprlandMoves, ov' = ov PROVE TilesInv'
  OBVIOUS
<1>1. UNCHANGED <<hypr, script, row, ov>>
  BY DEF Tiles!HyprlandMoves
<1>2. PICK cmd : /\ Tiles!Runs(cmd)
                 /\ \/ \E w \in Tiles!Workspaces : cmd = [do |-> "focus", w |-> w]
                    \/ \E x \in Windows, w \in Tiles!Workspaces :
                          cmd = [do |-> "move", x |-> x, w |-> w]
                    \/ \E x \in Windows : cmd = [do |-> "close", x |-> x]
  BY DEF Tiles!HyprlandMoves
<1>3. Tiles!Temp \notin Tiles!Workspaces
  BY Numbering DEF Tiles!Temp
<1>4. cmd \in Commands /\ \A x \in Windows : ~Parks(cmd, x)
  BY <1>2, <1>3 DEF Commands, Parks
<1> QED
  BY <1>1, <1>2, <1>4, CommandMovesTiles

LEMMA OpensKeepsTiles ==
    ASSUME TilesInv, NEW x \in Windows, Tiles!WindowOpens(x), ov' = ov
    PROVE  TilesInv'
<1>1. /\ Follows /\ hyprland \in Desktop /\ ov \in OverviewState
      /\ (script # <<>> => hypr.step = 0)
  BY TilesTyped
<1>2. Follows'
  BY <1>1, OpensFollows
<1> DEFINE v == hyprland.active[hyprland.focused]
<1>3. /\ hyprland' = [hyprland EXCEPT !.at[x] = v, !.read = FALSE]
      /\ hypr' = hypr /\ script' = script
  BY DEF Tiles!WindowOpens
<1>4. v # Tiles!Temp
  <2>1. v \in Tiles!Workspaces
    BY <1>1 DEF Desktop
  <2>2. Tiles!Temp \notin Tiles!Workspaces
    BY Numbering DEF Tiles!Temp
  <2> HIDE DEF v
  <2> QED
    BY <2>1, <2>2
<1> HIDE DEF v
<1>5. hyprland'.at = [hyprland.at EXCEPT ![x] = v] /\ hyprland.at \in [Windows -> Places]
  BY <1>1, <1>3 DEF Desktop
<1>6. \A y \in Windows : hyprland'.at[y] = Tiles!Temp => hyprland.at[y] = Tiles!Temp
  BY <1>4, <1>5
<1> QED
  BY <1>1, <1>2, <1>3, <1>6, TilesStay

LEMMA ReordersKeepsTiles == TilesInv /\ Tiles!Reorders /\ ov' = ov => TilesInv'
<1> SUFFICES ASSUME TilesInv, Tiles!Reorders, ov' = ov PROVE TilesInv'
  OBVIOUS
<1>1. /\ Follows /\ hyprland \in Desktop /\ ov \in OverviewState
      /\ (script # <<>> => hypr.step = 0)
  BY TilesTyped
<1>2. Follows'
  BY <1>1, ReordersFollows
<1>3. hypr' = hypr /\ script' = script /\ hyprland'.at = hyprland.at
  BY <1>1 DEF Tiles!Reorders, Desktop
<1> QED
  BY <1>1, <1>2, <1>3, TilesStay

LEMMA MonitorsKeepTiles == TilesInv /\ Tiles!ReadMonitors /\ ov' = ov => TilesInv'
<1> SUFFICES ASSUME TilesInv, Tiles!ReadMonitors, ov' = ov PROVE TilesInv'
  OBVIOUS
<1>1. Follows /\ ov \in OverviewState /\ (script # <<>> => hypr.step = 0)
  BY TilesTyped
<1>2. Follows'
  BY <1>1, MonitorsFollow
<1>3. hypr.step = 1 /\ script' = script /\ hyprland' = hyprland
  BY DEF Tiles!ReadMonitors
<1> QED
  BY <1>1, <1>2, <1>3, TilesStay

LEMMA ClientsKeepTiles == TilesInv /\ Tiles!ReadClients /\ ov' = ov => TilesInv'
<1> SUFFICES ASSUME TilesInv, Tiles!ReadClients, ov' = ov PROVE TilesInv'
  OBVIOUS
<1>1. Follows /\ ov \in OverviewState /\ (script # <<>> => hypr.step = 0)
  BY TilesTyped
<1>2. Follows'
  BY <1>1, ClientsFollow
<1>3. hypr.step = 2 /\ script' = script /\ hyprland' = hyprland
  BY DEF Tiles!ReadClients
<1> QED
  BY <1>1, <1>2, <1>3, TilesStay

LEMMA DisconnectKeepsTiles == TilesInv /\ Tiles!Disconnected /\ ov' = ov => TilesInv'
<1> SUFFICES ASSUME TilesInv, Tiles!Disconnected, ov' = ov PROVE TilesInv'
  OBVIOUS
<1>1. Follows /\ ov \in OverviewState
  BY TilesTyped
<1>2. Follows'
  BY <1>1, DisconnectFollows
<1>3. script = <<>> /\ script' = script /\ hyprland' = hyprland
  BY DEF Tiles!Disconnected, Tiles!PollFree
<1> QED
  BY <1>1, <1>2, <1>3, TilesStay

LEMMA TickKeepsTiles == TilesInv /\ Tiles!TimerTick /\ ov' = ov => TilesInv'
<1> SUFFICES ASSUME TilesInv, Tiles!TimerTick, ov' = ov PROVE TilesInv'
  OBVIOUS
<1>1. Follows /\ hyprland \in Desktop /\ ov \in OverviewState
  BY TilesTyped
<1>2. Follows'
  BY <1>1, TickFollows
<1>3. script = <<>> /\ script' = script /\ hyprland'.at = hyprland.at
  BY <1>1 DEF Tiles!TimerTick, Tiles!PollFree, Desktop
<1> QED
  BY <1>1, <1>2, <1>3, TilesStay

LEMMA DrawKeepsTiles == TilesInv /\ Tiles!DrawRow /\ ov' = ov => TilesInv'
<1> SUFFICES ASSUME TilesInv, Tiles!DrawRow, ov' = ov PROVE TilesInv'
  OBVIOUS
<1>1. Follows /\ ov \in OverviewState
  BY TilesTyped
<1>2. Follows'
  BY <1>1, DrawFollows
<1>3. script = <<>> /\ script' = script /\ hyprland' = hyprland
  BY DEF Tiles!DrawRow, Tiles!PollFree
<1> QED
  BY <1>1, <1>2, <1>3, TilesStay

LEMMA PollKeepsTiles ==
    ASSUME TilesInv, NEW n \in 1..Len(events), Tiles!PollEvents(n), ov' = ov
    PROVE  TilesInv'
<1>1. Follows /\ ov \in OverviewState
  BY TilesTyped
<1>2. Follows'
  BY <1>1, PollFollows
<1>3. script = <<>> /\ script' = script /\ hyprland' = hyprland
  BY DEF Tiles!PollEvents, Tiles!PollFree
<1> QED
  BY <1>1, <1>2, <1>3, TilesStay

LEMMA PillKeepsTiles ==
    ASSUME TilesInv, NEW m, NEW w \in Tiles!Workspaces, Tiles!ClickPill(m, w), ov' = ov
    PROVE  TilesInv'
<1>1. hypr \in Copy /\ ov \in OverviewState
  BY TilesTyped
<1> DEFINE s == Tiles!FocusScript(hypr, w, TRUE)
<1>2. Tiles!PollFree /\ UNCHANGED <<hyprland, events, hypr, row>> /\ script' = s
  BY DEF Tiles!ClickPill, Tiles!Order
<1>3. Sends(s)
  BY <1>1, FocusSends
<1>4. s \in Seq(Commands) /\ Retrieved(s)
  BY <1>3, SendsRetrieved
<1> HIDE DEF s
<1> QED
  BY <1>1, <1>2, <1>4, TilesScript

LEMMA HyprlandKeepsTiles == TilesInv /\ Tiles!HyNext /\ ov' = ov => TilesInv'
<1> SUFFICES ASSUME TilesInv, Tiles!HyNext, ov' = ov PROVE TilesInv'
  OBVIOUS
<1>1. CASE Tiles!HyprlandRuns
  BY <1>1, RunsKeepsTiles
<1>2. CASE Tiles!HyprlandMoves
  BY <1>2, MovesKeepTiles
<1>3. CASE Tiles!Reorders
  BY <1>3, ReordersKeepsTiles
<1>4. ASSUME NEW x \in Windows, Tiles!WindowOpens(x) PROVE TilesInv'
  BY <1>4, OpensKeepsTiles
<1>5. CASE Tiles!ReadMonitors
  BY <1>5, MonitorsKeepTiles
<1>6. CASE Tiles!ReadClients
  BY <1>6, ClientsKeepTiles
<1>7. CASE Tiles!Disconnected
  BY <1>7, DisconnectKeepsTiles
<1>8. CASE Tiles!TimerTick
  BY <1>8, TickKeepsTiles
<1>9. CASE Tiles!DrawRow
  BY <1>9, DrawKeepsTiles
<1>10. ASSUME NEW n \in 1..Len(events), Tiles!PollEvents(n) PROVE TilesInv'
  BY <1>10, PollKeepsTiles
<1>11. ASSUME NEW m \in Tiles!Monitors, NEW w \in Tiles!Workspaces, Tiles!ClickPill(m, w)
       PROVE  TilesInv'
  BY <1>11, PillKeepsTiles
<1> QED
  BY <1>1, <1>2, <1>3, <1>4, <1>5, <1>6, <1>7, <1>8, <1>9, <1>10, <1>11 DEF Tiles!HyNext

LEMMA PageOf == \A w \in Tiles!Workspaces : Tiles!GroupOf(w) \in Int
<1>1. \A w \in Tiles!Workspaces : (w - 1) \div PerMonitor = Tiles!MonitorOf(w) - 1
  BY MonitorOfIs
<1>2. \A w \in Tiles!Workspaces : Tiles!MonitorOf(w) \in Nat
  BY Numbering
<1> QED
  BY <1>1, <1>2 DEF Tiles!GroupOf

LEMMA ModeTyped ==
    ASSUME NEW o \in OverviewState, NEW m \in {"closed", "opening", "open", "closing"}
    PROVE  [o EXCEPT !.mode = m] \in OverviewState
BY DEF OverviewState

LEMMA DropTyped ==
    ASSUME NEW o \in OverviewState
    PROVE  [o EXCEPT !.drag = Tiles!NoWindow] \in OverviewState
BY DEF OverviewState

LEMMA CellTyped ==
    ASSUME NEW o \in OverviewState, NEW w \in Tiles!Workspaces
    PROVE  [o EXCEPT !.selected = w] \in OverviewState
BY DEF OverviewState

LEMMA SelectTyped ==
    ASSUME NEW o \in OverviewState, NEW w \in Tiles!Workspaces, NEW g \in Int
    PROVE  [o EXCEPT !.selected = w, !.group = g] \in OverviewState
BY DEF OverviewState

\* Neither the compositor, nor the copy, nor a script is touched.
LEMMA TilesRest ==
    ASSUME TilesInv, UNCHANGED Tiles!hyVars, ov' \in OverviewState
    PROVE  TilesInv'
<1>1. UNCHANGED <<hyprland, events, hypr, script, row>>
  BY DEF Tiles!hyVars
<1>2. Follows'
  BY <1>1 DEF Follows, TilesInv
<1> QED
  BY <1>1, <1>2 DEF TilesInv

LEMMA ToggleKeepsTiles == TilesInv /\ Tiles!Toggle => TilesInv'
<1> SUFFICES ASSUME TilesInv, Tiles!Toggle PROVE TilesInv'
  OBVIOUS
<1>1. Follows /\ ov \in OverviewState
  BY TilesTyped
<1>2. script = <<>> /\ UNCHANGED <<hyprland, events, script, row>>
  BY DEF Tiles!Toggle, Tiles!PollFree
<1>3. CASE Tiles!Shown
  <2>1. ov' = Tiles!Closes(ov) /\ hypr' = hypr
    BY <1>3 DEF Tiles!Toggle
  <2>2. ov' \in OverviewState
    BY <1>1, <2>1 DEF Tiles!Closes, OverviewState
  <2>3. Follows'
    BY <1>1, <1>2, <2>1 DEF Follows
  <2> QED
    BY <1>2, <2>2, <2>3, TilesStay
<1>4. CASE ~Tiles!Shown
  <2>1. ov' = [ov EXCEPT !.mode = "opening"] /\ hypr' = Tiles!ReadWorkspaces(hypr)
    BY <1>4 DEF Tiles!Toggle
  <2>2. ov' \in OverviewState
    BY <1>1, <2>1, ModeTyped
  <2>3. Follows'
    BY <1>1, <1>2, <2>1, OpeningFollows
  <2> QED
    BY <1>2, <2>2, <2>3, TilesStay
<1> QED
  BY <1>3, <1>4

LEMMA ToggleEndsKeepsTiles == TilesInv /\ Tiles!ToggleEnds => TilesInv'
<1> SUFFICES ASSUME TilesInv, Tiles!ToggleEnds PROVE TilesInv'
  OBVIOUS
<1>1. hypr \in Copy /\ ov \in OverviewState
  BY TilesTyped
<1> DEFINE w == IF hypr.by[Bound] = Tiles!Nowhere THEN 1 ELSE hypr.by[Bound]
<1>2. hypr.by[Bound] \in Tiles!Workspaces \union {Tiles!Nowhere}
  BY <1>1, Numbering DEF Copy, Actives
<1>3. w \in Tiles!Workspaces
  BY <1>2, Numbering
<1>4. ov' = [ov EXCEPT !.mode = "open", !.selected = w, !.group = Tiles!GroupOf(w)]
  BY DEF Tiles!ToggleEnds, Tiles!Opens
<1>5. UNCHANGED Tiles!hyVars
  BY DEF Tiles!ToggleEnds
<1> HIDE DEF w
<1>6. Tiles!GroupOf(w) \in Int
  BY <1>3, PageOf
<1>7. ov' \in OverviewState
  BY <1>1, <1>3, <1>4, <1>6 DEF OverviewState
<1> QED
  BY <1>5, <1>7, TilesRest

LEMMA FadedKeepsTiles == TilesInv /\ Tiles!FadedOut => TilesInv'
<1> SUFFICES ASSUME TilesInv, Tiles!FadedOut PROVE TilesInv'
  OBVIOUS
<1>1. ov \in OverviewState /\ ov' = [ov EXCEPT !.mode = "closed"] /\ UNCHANGED Tiles!hyVars
  BY TilesTyped DEF Tiles!FadedOut
<1>2. ov' \in OverviewState
  BY <1>1, ModeTyped
<1> QED
  BY <1>1, <1>2, TilesRest

\* What any command of the overview does: a script begins.
LEMMA OrderKeepsTiles ==
    ASSUME TilesInv, Tiles!Order, NEW s, script' = s, s \in Seq(Commands), Retrieved(s),
           ov' \in OverviewState
    PROVE  TilesInv'
<1>1. Tiles!PollFree /\ UNCHANGED <<hyprland, events, hypr, row>>
  BY DEF Tiles!Order
<1> QED
  BY <1>1, TilesScript

LEMMA ClickKeepsTiles ==
    ASSUME TilesInv, NEW w \in Tiles!Workspaces, Tiles!ClickCell(w)
    PROVE  TilesInv'
<1>1. hypr \in Copy /\ ov \in OverviewState
  BY TilesTyped
<1> DEFINE s == Tiles!FocusScript(hypr, w, FALSE)
<1>2. Tiles!Order /\ ov' = [ov EXCEPT !.selected = w] /\ script' = s
  BY DEF Tiles!ClickCell, Tiles!Acts
<1>3. Sends(s)
  BY <1>1, FocusSends
<1>4. s \in Seq(Commands) /\ Retrieved(s)
  BY <1>3, SendsRetrieved
<1>5. ov' \in OverviewState
  BY <1>1, <1>2, CellTyped
<1> HIDE DEF s
<1> QED
  BY <1>2, <1>4, <1>5, OrderKeepsTiles

LEMMA KeyKeepsTiles ==
    ASSUME TilesInv, NEW w \in Tiles!Workspaces, Tiles!Key(w)
    PROVE  TilesInv'
<1>1. hypr \in Copy /\ ov \in OverviewState
  BY TilesTyped
<1>2. /\ Tiles!Order /\ ov' = [ov EXCEPT !.selected = w, !.group = Tiles!GroupOf(w)]
      /\ \/ script' = Tiles!FocusScript(hypr, w, FALSE)
         \/ script' = Tiles!SwapScript(hypr, w)
         \/ script' = Tiles!MoveInScript(hypr, w)
  BY DEF Tiles!Key, Tiles!Acts
<1>3. ov' \in OverviewState
  <2>1. Tiles!GroupOf(w) \in Int
    BY PageOf
  <2> QED
    BY <1>1, <1>2, <2>1, SelectTyped
<1>4. Sends(Tiles!FocusScript(hypr, w, FALSE))
  BY <1>1, FocusSends
<1>5. Sends(Tiles!MoveInScript(hypr, w))
  BY <1>1, MoveInSends
<1>6. LET s == Tiles!SwapScript(hypr, w) IN s \in Seq(Commands) /\ Retrieved(s)
  BY <1>1, SwapRetrieves
<1>7. script' \in Seq(Commands) /\ Retrieved(script')
  BY <1>2, <1>4, <1>5, <1>6, SendsRetrieved
<1> QED
  BY <1>2, <1>3, <1>7, OrderKeepsTiles

LEMMA CloseKeepsTiles == TilesInv /\ Tiles!CloseKey => TilesInv'
<1> SUFFICES ASSUME TilesInv, Tiles!CloseKey PROVE TilesInv'
  OBVIOUS
<1>1. hypr \in Copy /\ ov \in OverviewState
  BY TilesTyped
<1> DEFINE here == Tiles!In(hypr.clients.at, ov.selected)
           mine == {x \in Windows : hypr.clients.at[x] \in
                      {w \in Tiles!Workspaces : Tiles!MonitorOf(w) = Bound}}
           all == {x \in Windows : hypr.clients.at[x] # Tiles!Nowhere}
           go == Tiles!FocusScript(hypr, 1, FALSE)
<1>2. /\ Tiles!Order /\ ov' = ov
      /\ \/ script' = Tiles!CloseScript(hypr, here)
         \/ script' = Tiles!CloseScript(hypr, mine)
         \/ script' = Tiles!CloseScript(hypr, all) \o go
  BY DEF Tiles!CloseKey, Tiles!Acts
<1>3. here \in SUBSET Windows /\ mine \in SUBSET Windows /\ all \in SUBSET Windows
  BY InIs
<1>4. Sends(go)
  BY <1>1, FocusSends, Numbering
<1> HIDE DEF here, mine, all, go
<1>5. /\ Sends(Tiles!CloseScript(hypr, here)) /\ Sends(Tiles!CloseScript(hypr, mine))
      /\ Sends(Tiles!CloseScript(hypr, all))
  BY <1>3, CloseIs
<1>6. Sends(Tiles!CloseScript(hypr, all) \o go)
  BY <1>4, <1>5, SendsRetrieved, ScriptsJoin
<1>7. script' \in Seq(Commands) /\ Retrieved(script')
  BY <1>2, <1>5, <1>6, SendsRetrieved
<1> QED
  BY <1>1, <1>2, <1>7, OrderKeepsTiles

LEMMA ReleaseKeepsTiles ==
    ASSUME TilesInv, NEW w \in Tiles!Workspaces \union {Tiles!Nowhere}, Tiles!Release(w)
    PROVE  TilesInv'
<1>1. hypr \in Copy /\ ov \in OverviewState
  BY TilesTyped
<1>2. /\ Tiles!PollFree /\ ov.drag # Tiles!NoWindow /\ ov' = [ov EXCEPT !.drag = Tiles!NoWindow]
      /\ UNCHANGED <<hyprland, events, hypr, row>>
      /\ script' = IF w = Tiles!Nowhere THEN <<>>
                   ELSE IF w = ov.from THEN Tiles!FocusScript(hypr, w, FALSE)
                   ELSE Tiles!MoveScript(hypr, ov.drag, w)
  BY DEF Tiles!Release
<1>3. ov' \in OverviewState
  BY <1>1, <1>2, DropTyped
<1>4. ov.drag \in Windows
  BY <1>1, <1>2 DEF OverviewState
<1>5. w = Tiles!Nowhere => Sends(script')
  BY <1>2, NothingSent
<1>6. w \in Tiles!Workspaces => Sends(Tiles!FocusScript(hypr, w, FALSE))
  BY <1>1, FocusSends
<1>7. w \in Tiles!Workspaces => Sends(Tiles!MoveScript(hypr, ov.drag, w))
  BY <1>1, <1>4, MoveSends
<1>8. Sends(script')
  BY <1>2, <1>5, <1>6, <1>7
<1>9. script' \in Seq(Commands) /\ Retrieved(script')
  BY <1>8, SendsRetrieved
<1> QED
  BY <1>2, <1>3, <1>9, TilesScript

LEMMA PressKeepsTiles ==
    ASSUME TilesInv, NEW x \in Windows, Tiles!PressTile(x)
    PROVE  TilesInv'
<1>1. Follows /\ ov \in OverviewState
  BY TilesTyped
<1>2. /\ ov' = [ov EXCEPT !.drag = x, !.from = ov.tiles[x]]
      /\ UNCHANGED <<hyprland, events, hypr, script, row>> /\ script = <<>>
  BY DEF Tiles!PressTile, Tiles!Acts, Tiles!Order, Tiles!PollFree
<1>3. ov' \in OverviewState
  BY <1>1, <1>2 DEF OverviewState
<1>4. Follows'
  BY <1>1, <1>2 DEF Follows
<1> QED
  BY <1>2, <1>3, <1>4, TilesStay

LEMMA PaintKeepsTiles ==
    ASSUME TilesInv, NEW S, Tiles!Paint(S)
    PROVE  TilesInv'
<1>1. hypr \in Copy /\ ov \in OverviewState
  BY TilesTyped
<1>2. ov' = [ov EXCEPT !.tiles = Tiles!Tiles(ov)] /\ UNCHANGED Tiles!hyVars
  BY DEF Tiles!Paint
<1>3. hypr.clients.at \in [Windows -> Places] /\ Tiles!Nowhere \in Places
  BY <1>1 DEF Copy, Clients, Places
<1>4. Tiles!Tiles(ov) \in [Windows -> Places]
  BY <1>3 DEF Tiles!Tiles
<1>5. ov' \in OverviewState
  BY <1>1, <1>2, <1>4 DEF OverviewState
<1> QED
  BY <1>2, <1>5, TilesRest

LEMMA FramesKeepTiles ==
    ASSUME TilesInv, NEW x,
           Tiles!BufferDone(x) \/ Tiles!Ready(x) \/ Tiles!Failed(x) \/ Tiles!LateAnswer(x)
    PROVE  TilesInv'
<1>1. ov' = ov /\ UNCHANGED Tiles!hyVars
  BY DEF Tiles!BufferDone, Tiles!Ready, Tiles!Failed, Tiles!LateAnswer
<1> QED
  BY <1>1, TilesTyped, TilesRest

LEMMA TilesInitially == Tiles!Init => TilesInv
<1> SUFFICES ASSUME Tiles!Init PROVE TilesInv
  OBVIOUS
<1>1. Tiles!HyInit
  BY DEF Tiles!Init
<1>2. Follows
  BY <1>1, FollowsInitially
<1>3. script = <<>> /\ \A x \in Windows : hyprland.at[x] = 1
  BY <1>1 DEF Tiles!HyInit
<1>4. Parked(hyprland, script)
  <2>1. <<>> \in Seq(Commands) /\ Retrieved(<<>>)
    BY NothingSent, SendsRetrieved
  <2>2. Tiles!Temp # 1
    BY DEF Tiles!Temp
  <2> QED
    BY <1>3, <2>1, <2>2 DEF Parked
<1>5. 1 \in Tiles!Workspaces /\ Tiles!Nowhere \in Places
  BY Numbering DEF Places
<1>6. ov \in OverviewState
  BY <1>5 DEF Tiles!Init, OverviewState
<1> QED
  BY <1>2, <1>3, <1>4, <1>6 DEF TilesInv

LEMMA TilesStep == TilesInv /\ Tiles!Next => TilesInv'
<1> SUFFICES ASSUME TilesInv, Tiles!Next PROVE TilesInv'
  OBVIOUS
<1>1. CASE Tiles!HyprlandStep
  BY <1>1, HyprlandKeepsTiles DEF Tiles!HyprlandStep
<1>2. CASE Tiles!Toggle
  BY <1>2, ToggleKeepsTiles
<1>3. CASE Tiles!ToggleEnds
  BY <1>3, ToggleEndsKeepsTiles
<1>4. CASE Tiles!FadedOut
  BY <1>4, FadedKeepsTiles
<1>5. CASE Tiles!CloseKey
  BY <1>5, CloseKeepsTiles
<1>6. ASSUME NEW w \in Tiles!Workspaces, Tiles!ClickCell(w) PROVE TilesInv'
  BY <1>6, ClickKeepsTiles
<1>7. ASSUME NEW w \in Tiles!Workspaces, Tiles!Key(w) PROVE TilesInv'
  BY <1>7, KeyKeepsTiles
<1>8. ASSUME NEW w \in Tiles!Workspaces \union {Tiles!Nowhere}, Tiles!Release(w) PROVE TilesInv'
  BY <1>8, ReleaseKeepsTiles
<1>9. ASSUME NEW x \in Windows, Tiles!PressTile(x) PROVE TilesInv'
  BY <1>9, PressKeepsTiles
<1>10. ASSUME NEW x \in Windows,
              Tiles!BufferDone(x) \/ Tiles!Ready(x) \/ Tiles!Failed(x) \/ Tiles!LateAnswer(x)
       PROVE  TilesInv'
  BY <1>10, FramesKeepTiles
<1>11. ASSUME NEW S \in SUBSET Windows, Tiles!Paint(S) PROVE TilesInv'
  BY <1>11, PaintKeepsTiles
<1> QED
  BY <1>1, <1>2, <1>3, <1>4, <1>5, <1>6, <1>7, <1>8, <1>9, <1>10, <1>11 DEF Tiles!Next

LEMMA TilesUntouched == TilesInv /\ UNCHANGED tileVars => TilesInv'
<1> SUFFICES ASSUME TilesInv, UNCHANGED tileVars PROVE TilesInv'
  OBVIOUS
<1>1. UNCHANGED Tiles!hyVars /\ ov' = ov
  BY DEF tileVars, Tiles!hyVars
<1> QED
  BY <1>1, TilesTyped, TilesRest

LEMMA TilesAreTyped == TilesInv /\ CapturesInv => Tiles!TypeOK
<1> SUFFICES ASSUME TilesInv, CapturesInv PROVE Tiles!TypeOK
  OBVIOUS
<1>1. /\ hyprland \in Desktop /\ hypr \in Copy /\ ov \in OverviewState
      /\ script # <<>> => hypr.step = 0
  BY TilesTyped
<1>2. Owned(hyprland)
  BY DEF TilesInv, Follows, CopyFollows
<1>3. Tiles!HyTypeOK
  BY <1>1, <1>2
     DEF Tiles!HyTypeOK, Desktop, Copy, Clients, Actives, Steps, Places, Owned
<1>4. /\ frames \in [Windows -> {"none", "asked", "copying"}]
      /\ late \in [Windows -> Nat] /\ struck \subseteq Windows
  BY DEF CapturesInv
<1>5. /\ ov.mode \in {"closed", "opening", "open", "closing"}
      /\ ov.drag \in Windows \union {Tiles!NoWindow} /\ ov.selected \in Tiles!Workspaces
  BY <1>1 DEF OverviewState
<1> QED
  BY <1>3, <1>4, <1>5 DEF Tiles!TypeOK

\* With nothing under way the copy shows the workspaces there are.
LEMMA ArrivedIs ==
    ASSUME NEW g, NEW b \in Actives, NEW f, NEW A \in [Tiles!Monitors -> Tiles!Workspaces],
           Arrives(<<>>, g, b, f, A)
    PROVE  b = A
<1>1. Len(<<>>) = 0 /\ 1..0 = {}
  OBVIOUS
<1>2. \A m \in Tiles!Monitors : NoMonTo(<<>>, m)
  BY <1>1 DEF NoMonTo
<1>3. ~Leading(<<>>)
  BY <1>1 DEF Leading
<1>4. \A m \in Tiles!Monitors : b[m] = A[m]
  BY <1>2, <1>3 DEF Arrives
<1> QED
  BY <1>4 DEF Actives

LEMMA RowIsRight == TilesInv => Tiles!RowSettles
<1> SUFFICES ASSUME TilesInv, Tiles!PollFree, hypr.backend, events = <<>>, hyprland.read,
                    ~row.redraw
             PROVE  /\ row.active = hyprland.active
                    /\ row.occupied = Tiles!Occupied(hyprland.at)
                    /\ row.order = hyprland.order
                    /\ \A m \in Tiles!Monitors :
                          row.dock[m] = Tiles!In(hyprland.at, hyprland.active[m])
  BY DEF Tiles!RowSettles
<1>1. hypr.step = 0
  BY DEF Tiles!PollFree
<1>2. /\ CopyFollows(hyprland, events, hypr) /\ RowFollows(hypr, row)
      /\ hyprland \in Desktop /\ hypr \in Copy
  BY CopyTyped DEF TilesInv, Follows
<1>3. hypr.by = hyprland.active
  <2>1. Arrives(<<>>, hypr.focused, hypr.by, hyprland.focused, hyprland.active)
    BY <1>1, <1>2 DEF CopyFollows
  <2>2. hypr.by \in Actives /\ hyprland.active \in [Tiles!Monitors -> Tiles!Workspaces]
    BY <1>2 DEF Copy, Desktop
  <2> QED
    BY <2>1, <2>2, ArrivedIs
<1>4. ~HasWindow(events)
  <2>1. Len(<<>>) = 0 /\ 1..0 = {}
    OBVIOUS
  <2> QED
    BY <2>1 DEF HasWindow
<1>5. hypr.occupied = Tiles!Occupied(hyprland.at) /\ hypr.clients = Tiles!ClientsOf(hyprland)
  BY <1>2, <1>4 DEF CopyFollows
<1>6. hypr.clients.at = hyprland.at /\ hypr.clients.order = hyprland.order
  BY <1>5 DEF Tiles!ClientsOf
<1>7. /\ row.active = hypr.by /\ row.occupied = hypr.occupied /\ row.order = hypr.clients.order
      /\ row.dock = Tiles!Drawn(hypr).dock
  BY <1>1, <1>2 DEF RowFollows
<1>8. \A m \in Tiles!Monitors : row.dock[m] = Tiles!In(hyprland.at, hyprland.active[m])
  <2>1. \A m \in Tiles!Monitors :
           row.dock[m] = IF hypr.by[m] = Tiles!Nowhere THEN {}
                         ELSE Tiles!In(hypr.clients.at, hypr.by[m])
    BY <1>7 DEF Tiles!Drawn
  <2>2. \A m \in Tiles!Monitors : hyprland.active[m] # Tiles!Nowhere
    BY <1>2, Numbering DEF Desktop, Tiles!Nowhere
  <2> QED
    BY <1>3, <1>6, <2>1, <2>2
<1> QED
  BY <1>3, <1>5, <1>6, <1>7, <1>8

LEMMA NoneIsStranded == TilesInv => Tiles!NoneStranded
<1> SUFFICES ASSUME TilesInv, script = <<>>, NEW x \in Windows
             PROVE  hyprland.at[x] # Tiles!Temp
  BY DEF Tiles!NoneStranded
<1>1. ~Covers(<<>>, x)
  BY DEF Covers
<1> QED
  BY <1>1 DEF TilesInv, Parked

-----------------------------------------------------------------------------
(* The composition: every part that runs keeps its own invariant, and no   *)
(* step of another part or of the dashboard touches it.                    *)
PartsInv ==
    /\ part = "bar" => EdgesInv
    /\ part = "settings" => TabsInv
    /\ part = "logout" => RingInv
    /\ part = "launcher" => RowsInv
    /\ part = "overview" => CapturesInv /\ TilesInv

LEMMA EdgesUntouched == EdgesInv /\ UNCHANGED edgeVars => EdgesInv'
<1> SUFFICES ASSUME EdgesPlain, UNCHANGED edgeVars PROVE EdgesPlain'
    BY EdgesInvPlain, PTL
<1> QED BY DEF edgeVars, EdgesPlain, ZoneFollows, AtRest, Edges!OnePanel, Edges!Wanted

LEMMA TabsUntouched == TabsInv /\ UNCHANGED tabVars => TabsInv'
<1> SUFFICES ASSUME TabsPlain, UNCHANGED tabVars PROVE TabsPlain'
    BY TabsInvPlain, PTL
<1>1. Tabs!Here' = Tabs!Here
    BY DEF tabVars, Tabs!Here
<1> QED BY <1>1 DEF tabVars, TabsPlain

LEMMA RingUntouched == RingInv /\ UNCHANGED ringVars => RingInv'
<1> SUFFICES ASSUME RingPlain, UNCHANGED ringVars PROVE RingPlain'
    BY RingInvPlain, PTL
<1>1. Ring!Here' = Ring!Here
    BY DEF ringVars, Ring!Here
<1> QED BY <1>1 DEF ringVars, RingPlain, RingCount

LEMMA RowsUntouched == RowsInv /\ UNCHANGED rowVars => RowsInv'
<1> SUFFICES ASSUME RowsPlain, UNCHANGED rowVars PROVE RowsPlain'
    BY RowsInvPlain, PTL
<1> QED BY DEF rowVars, RowsPlain

LEMMA CapturesUntouched == CapturesInv /\ UNCHANGED tileVars => CapturesInv'
BY DEF tileVars, CapturesInv

LEMMA Initially == MCInit => PartsInv
BY EdgesInitially, TabsInitially, RingInitially, RowsInitially, CapturesInitially,
   TilesInitially DEF MCInit, PartsInv

LEMMA Step == PartsInv /\ [MCNext]_<<part, vars, guests>> => PartsInv'
<1> SUFFICES ASSUME PartsInv, [MCNext]_<<part, vars, guests>> PROVE PartsInv'
    OBVIOUS
<1>1. CASE UNCHANGED guests /\ UNCHANGED part
    <2>1. /\ UNCHANGED edgeVars /\ UNCHANGED tabVars /\ UNCHANGED ringVars
          /\ UNCHANGED rowVars /\ UNCHANGED tileVars
        BY <1>1 DEF guests
    <2> QED BY <1>1, <2>1, EdgesUntouched, TabsUntouched, RingUntouched, RowsUntouched,
               CapturesUntouched, TilesUntouched
            DEF PartsInv
<1>2. CASE Guest /\ UNCHANGED part
    <2>1. part = "bar" => EdgesInv'
        BY <1>2, EdgesStep DEF PartsInv, Guest
    <2>2. part = "settings" => TabsInv'
        BY <1>2, TabsStep DEF PartsInv, Guest
    <2>3. part = "logout" => RingInv'
        BY <1>2, RingStep DEF PartsInv, Guest
    <2>4. part = "launcher" => RowsInv'
        BY <1>2, RowsStep DEF PartsInv, Guest
    <2>5. part = "overview" => CapturesInv' /\ TilesInv'
        BY <1>2, CapturesStep, TilesStep DEF PartsInv, Guest
    <2> QED BY <1>2, <2>1, <2>2, <2>3, <2>4, <2>5 DEF PartsInv
<1>3. CASE UNCHANGED <<part, vars, guests>>
    BY <1>1, <1>3
<1>4. CASE Dashboard /\ UNCHANGED part
    BY <1>1, <1>4 DEF Dashboard
<1> QED BY <1>2, <1>3, <1>4 DEF MCNext

(* Every panel, monitor, text, button and result, however many there are:  *)
(* the invariant of the part that runs holds.                              *)
LEMMA PartsHold == MCSpec => []PartsInv
<1> QED BY Initially, Step, PTL DEF MCSpec

(* An input has its effect once and on what it was meant for: one panel of *)
(* the bar is open at a time, one opening of the ring runs one command,    *)
(* the edits of the settings land in their scope, and the rows of the      *)
(* launcher belong to the opening that shows them.                         *)
THEOREM InputsAlwaysLand == MCSpec => []InputsLand
<1>1. PartsInv => InputsLand
    BY EdgesAreRight, TabsAreRight, RingIsRight, RowsAreRight DEF PartsInv, InputsLand
<1> QED BY <1>1, PartsHold, PTL

(* No surface waits for a frame that nobody asked for: bar and dock, list, *)
(* settings tab and ring are painted as they are, or their frame comes,    *)
(* and a capture of the overview waits while the compositor owes it.       *)
THEOREM SurfacesAlwaysSettle == MCSpec => []SurfacesSettle
<1>1. PartsInv => SurfacesSettle
    BY EdgesAreRight, TabsAreRight, RingIsRight, RowsAreRight, CapturesAreRight
       DEF PartsInv, SurfacesSettle
<1> QED BY <1>1, PartsHold, PTL

(* Whatever monitors, workspaces and windows there are: once every line is *)
(* read and the frame drawn, the rows and docks show what Hyprland has,    *)
(* although a line patches a copy newer than itself and three requests are *)
(* answered at different times (hypr_poll_events, hypr_refresh); and no    *)
(* script leaves a window on the workspace it parks windows on, whatever   *)
(* Hyprland does between its commands (hypr_tile_swap_workspace).          *)
THEOREM OverviewAlwaysSettles == MCSpec => []OverviewSettles
<1>1. PartsInv => OverviewSettles
    BY TilesAreTyped, RowIsRight, NoneIsStranded DEF PartsInv, OverviewSettles
<1> QED BY <1>1, PartsHold, PTL

(* Whatever else is open over the desktop, the dashboard behaves as        *)
(* OverlayPanel says: what is proved of that module holds here.            *)
THEOREM DashboardIsOverlayPanel == MCSpec => Spec
<1>1. MCInit => Init
    BY DEF MCInit
<1>2. [MCNext]_<<part, vars, guests>> => [Next]_vars
    BY DEF MCNext, Dashboard, Guest
<1> QED BY <1>1, <1>2, PTL DEF MCSpec, Spec

(* Every variable of the dashboard and of the part that runs has its type. *)
THEOREM TypesAlwaysOK == MCSpec => []TypesOK
<1>1. PartsInv /\ TypeOK => TypesOK
    BY DEF PartsInv, EdgesInv, TabsInv, RingInv, RowsInv, TypesOK
<1> QED BY <1>1, PartsHold, DashboardIsOverlayPanel, TypeCorrect, PTL

(* The dashboard's fade never stalls and it holds the keyboard exactly     *)
(* while it is open (overlay_panel_toggle, dashboard_paint), also beside   *)
(* the other parts.                                                        *)
THEOREM DashboardStaysInOrder == MCSpec => [](FadeIsDriven /\ KeyboardFollowsOpen)
BY DashboardIsOverlayPanel, FadeNeverStalls, KeyboardAlwaysFollowsOpen, PTL
=============================================================================
