-------------------------------- MODULE Bar ---------------------------------
(* The bar and the dock of one monitor: the panels the bar's pills open,   *)
(* and the two surfaces at the screen's edge that hide when nothing wants  *)
(* them.  An edge surface has a wish (hidden or not), an animation that    *)
(* carries it out, and a geometry the compositor was told; the dock also   *)
(* reserves space while its workspace has windows.                         *)
EXTENDS Naturals

CONSTANTS
    BarPanels,    \* panels of the bar itself, "clock" among them
    Overlays,     \* overlays the bar can open: the dashboard, the logout screen
    MaxActs       \* clicks, keys, commands and changes of the settings or the windows

VARIABLES
    panels,       \* phase of each panel and overlay; closing counts as open in the code
    byWidget,     \* overlays opened from the bar
    pointer,      \* focused_surface: "bar", "dock" or "away"
    edge,         \* AutoHideState of the bar and the dock, with its animation
    shape,        \* geometry each was told to have
    drawDue,      \* surfaces with a frame requested
    zone,         \* exclusive zone of the dock: last_exclusive_zone and what is committed
    windows,      \* the active workspace has windows
    barWork       \* acts so far

vars == <<panels, byWidget, pointer, edge, shape, drawDue, zone, windows, barWork>>

Edges == {"bar", "dock"}

(* bar_autohide_geometry and dock_current_height.                          *)
Shape(e) == IF ~e.enabled THEN "reserved" ELSE IF e.collapsed THEN "strip" ELSE "full"
(* The opacity is 0 when hidden, 2 when shown, 1 in between.  Two fields   *)
(* are the specification's own: unsized says that the surface started      *)
(* collapsed and no geometry was told since, cut that the setting changed  *)
(* under an animation that hides, which goes on.                           *)
Fresh(on) == [enabled |-> on, hidden |-> FALSE, collapsed |-> FALSE, opacity |-> 2,
              anim |-> "none", unsized |-> FALSE, cut |-> FALSE]
(* A bar that hides by itself starts hidden and collapsed on a surface     *)
(* created with its full height.                                           *)
Tucked == [Fresh(TRUE) EXCEPT !.hidden = TRUE, !.collapsed = TRUE, !.opacity = 0,
                              !.unsized = TRUE]

Init ==
    /\ panels = [p \in BarPanels \union Overlays |-> "closed"]
    /\ byWidget = {}
    /\ pointer = "away"
    /\ \E bar \in {Tucked, Fresh(FALSE)}, dock \in {Fresh(TRUE), Fresh(FALSE)} :
          edge = [s \in Edges |-> IF s = "bar" THEN bar ELSE dock]
    /\ shape = [s \in Edges |-> IF edge[s].enabled THEN "full" ELSE "reserved"]
    /\ drawDue = Edges
    /\ zone = [last |-> FALSE, asked |-> FALSE, told |-> FALSE]
    /\ windows = FALSE
    /\ barWork = 0

Act == barWork < MaxActs /\ barWork' = barWork + 1

-----------------------------------------------------------------------------
(* Hiding.  ph is the phase of the panels when the surface is painted.     *)
Wanted(s, ph) ==
    \/ pointer = s
    \/ s = "bar" /\ \E p \in BarPanels \union byWidget : ph[p] # "closed"

(* One tick of the surface's animation: on its way, or done.               *)
CollapseForgets(e) == [e EXCEPT !.collapsed = TRUE]    \* mutant: the wish is not looked at again
Collapse(e) == [e EXCEPT !.collapsed = @ \/ e.hidden]
Ticked(e) ==
    IF e.anim = "none" THEN {e}
    ELSE {[e EXCEPT !.opacity = 1],
          Collapse([e EXCEPT !.opacity = IF e.anim = "hide" THEN 0 ELSE 2, !.anim = "none"])}

(* The animation of the opposite wish is cancelled by its owner.           *)
AutohideStaysCollapsed(e, wanted) ==      \* mutant: revealed without its height
    IF ~e.enabled \/ wanted # e.hidden THEN e
    ELSE [e EXCEPT !.hidden = ~wanted, !.anim = IF wanted THEN "show" ELSE "hide"]
Autohide(e, wanted) ==
    IF ~e.enabled \/ wanted # e.hidden THEN e
    ELSE [e EXCEPT !.hidden = ~wanted, !.collapsed = @ /\ ~wanted,
                   !.unsized = @ /\ ~wanted, !.cut = FALSE,
                   !.anim = IF wanted THEN "show" ELSE "hide"]

Painted(s, ph) == {Autohide(e, Wanted(s, ph)) : e \in Ticked(edge[s])}

(* A geometry is told again whenever collapsed changes.                    *)
Told(s, e) ==
    IF e.collapsed # edge[s].collapsed THEN [shape EXCEPT ![s] = Shape(e)] ELSE shape

(* The paint commits whatever zone was asked for.                          *)
Paint(s) ==
    /\ s \in drawDue
    /\ \E e \in Painted(s, panels) :
         /\ edge' = [edge EXCEPT ![s] = e]
         /\ shape' = Told(s, e)
         /\ drawDue' = IF e.anim = "none" THEN drawDue \ {s} ELSE drawDue
    /\ zone' = IF s = "dock" THEN [zone EXCEPT !.told = zone.asked] ELSE zone
    /\ UNCHANGED <<panels, byWidget, pointer, windows, barWork>>

(* The whole bar redraws every second.                                     *)
TimerTick ==
    /\ drawDue' = drawDue \union {"bar"}
    /\ UNCHANGED <<panels, byWidget, pointer, edge, shape, zone, windows, barWork>>

(* Any motion, entry or leave redraws all surfaces; the dock takes input   *)
(* only while it hides by itself.                                          *)
PointerMoves(to) ==
    /\ pointer # to /\ (to = "dock" => edge["dock"].enabled)
    /\ pointer' = to /\ drawDue' = Edges
    /\ UNCHANGED <<panels, byWidget, edge, shape, zone, windows, barWork>>

-----------------------------------------------------------------------------
(* The dock's entries follow the windows; a zone that changed is asked for *)
(* and goes out with the next commit.                                      *)
Refresh(z, full) ==
    IF full = z.last THEN z ELSE [z EXCEPT !.last = full, !.asked = full]

WindowsChange ==
    /\ Act /\ windows' = ~windows
    /\ zone' = IF edge["dock"].enabled THEN zone ELSE Refresh(zone, windows')
    /\ drawDue' = Edges
    /\ UNCHANGED <<panels, byWidget, pointer, edge, shape>>

MonitorAutohideApply(e, on) ==
    [e EXCEPT !.enabled = on, !.hidden = FALSE, !.collapsed = on /\ @,
              !.opacity = IF on /\ e.collapsed THEN 0 ELSE 2,
              !.unsized = FALSE, !.cut = e.anim = "hide"]

ApplyZone(z, on) ==
    LET full == ~on /\ windows
    IN  [z EXCEPT !.last = full, !.asked = full, !.told = full]

(* The running animation is not cancelled: its setter still moves the      *)
(* opacity, also of a bar or dock that hides by itself again.              *)
ApplyConfigUpdate(s) ==
    LET on == ~edge[s].enabled
    IN  /\ Act
        /\ edge' = [edge EXCEPT ![s] = MonitorAutohideApply(@, on)]
        /\ shape' = [shape EXCEPT ![s] = Shape(edge'[s])]
        /\ zone' = IF s = "dock" THEN ApplyZone(zone, on) ELSE zone
        /\ drawDue' = Edges
        /\ UNCHANGED <<panels, byWidget, pointer, windows>>

-----------------------------------------------------------------------------
(* Panels.  A toggle of one that is open or closing closes it (again).     *)
Toggled(phase) == IF phase = "closed" THEN "open" ELSE "closing"

CloseOthersNotClock(keep) ==              \* mutant: the clock's panel is forgotten
    [p \in DOMAIN panels |-> IF p \in {keep, "clock"} THEN panels[p]
                             ELSE IF panels[p] = "closed" THEN "closed" ELSE "closing"]
CloseOtherOverlays(keep) ==
    [p \in DOMAIN panels |-> IF p = keep \/ panels[p] = "closed" THEN panels[p] ELSE "closing"]

(* bar_paint runs before the panel is toggled when it is about to open.    *)
PillClick(p) ==
    /\ Act /\ pointer = "bar"
    /\ LET closed == CloseOtherOverlays(IF p = "clock" THEN "none" ELSE p)
       IN  /\ panels' = [closed EXCEPT ![p] = Toggled(@)]
           /\ IF closed[p] = "closed" /\ p # "clock"
              THEN \E e \in Painted("bar", closed) :
                      /\ edge' = [edge EXCEPT !["bar"] = e]
                      /\ shape' = Told("bar", e)
              ELSE UNCHANGED <<edge, shape>>
    /\ byWidget' = IF p \in Overlays /\ panels[p] = "closed" THEN byWidget \union {p} ELSE byWidget
    /\ drawDue' = drawDue \union {"bar"}
    /\ UNCHANGED <<pointer, zone, windows>>

(* A command toggles an overlay without the bar.                           *)
IpcToggle(o) ==
    /\ Act
    /\ panels' = [panels EXCEPT ![o] = Toggled(@)]
    /\ byWidget' = IF panels[o] = "closed" THEN byWidget \ {o} ELSE byWidget
    /\ drawDue' = Edges
    /\ UNCHANGED <<pointer, edge, shape, zone, windows>>

(* Escape, or a click outside the panel.                                   *)
Dismiss(p) ==
    /\ Act /\ panels[p] # "closed"
    /\ panels' = [panels EXCEPT ![p] = "closing"]
    /\ drawDue' = drawDue \union {"bar"}
    /\ UNCHANGED <<byWidget, pointer, edge, shape, zone, windows>>

FadeEnds(p) ==
    /\ panels[p] = "closing"
    /\ panels' = [panels EXCEPT ![p] = "closed"]
    /\ UNCHANGED <<byWidget, pointer, edge, shape, drawDue, zone, windows, barWork>>

Next ==
    \/ TimerTick \/ WindowsChange
    \/ \E s \in Edges : Paint(s) \/ ApplyConfigUpdate(s)
    \/ \E to \in {"bar", "dock", "away"} : PointerMoves(to)
    \/ \E p \in BarPanels \union Overlays : PillClick(p) \/ Dismiss(p) \/ FadeEnds(p)
    \/ \E o \in Overlays : IpcToggle(o)

Spec == Init /\ [][Next]_vars

-----------------------------------------------------------------------------
TypeOK ==
    /\ panels \in [BarPanels \union Overlays -> {"closed", "open", "closing"}]
    /\ byWidget \subseteq Overlays /\ pointer \in {"bar", "dock", "away"}
    /\ edge \in [Edges -> [enabled : BOOLEAN, hidden : BOOLEAN, collapsed : BOOLEAN,
                           opacity : 0..2, anim : {"none", "show", "hide"},
                           unsized : BOOLEAN, cut : BOOLEAN]]
    /\ shape \in [Edges -> {"reserved", "full", "strip"}]
    /\ drawDue \subseteq Edges
    /\ zone \in [last : BOOLEAN, asked : BOOLEAN, told : BOOLEAN]

(* Of all that the bar opened at most one is not on its way out.           *)
OnePanel ==
    \A p, q \in BarPanels \union byWidget :
        panels[p] = "open" /\ panels[q] = "open" => p = q

(* A surface at rest is as it should be: shown while anything wants it,    *)
(* fully drawn or collapsed to a strip and never in between, and of the    *)
(* geometry the compositor was told; the dock reserves space exactly when  *)
(* it stays and there are windows.  Two exceptions are the code's: a bar   *)
(* keeps the full height it was created with until it is first shown, and  *)
(* one shown under a hiding that a change of the setting cut short stays   *)
(* transparent until it hides again.                                       *)
EdgesSettle ==
    /\ \A s \in Edges \ drawDue :
         LET e == edge[s]
         IN  /\ e.enabled => /\ Wanted(s, panels) => ~e.hidden
                             /\ e.collapsed = e.hidden
                             /\ e.opacity = IF e.hidden \/ e.cut THEN 0 ELSE 2
             /\ ~e.enabled => ~e.hidden /\ ~e.collapsed
             /\ shape[s] = IF e.unsized THEN "full" ELSE Shape(e)
    /\ "dock" \notin drawDue => zone.told = (~edge["dock"].enabled /\ windows)
=============================================================================
