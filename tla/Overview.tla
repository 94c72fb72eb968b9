------------------------------ MODULE Overview ------------------------------
(* The overview: a page of workspaces with live tiles of their windows,    *)
(* drawn from the copy of the Hyprland service and from captures that the  *)
(* compositor fills.  Clicks, drags and keys send commands to Hyprland,    *)
(* which answers them while the poll thread waits.                         *)
EXTENDS Hyprland

CONSTANT Bound       \* the monitor the overview is on

VARIABLES
    ov,        \* OverviewState, with the tiles of its last frame
    capture,   \* ToplevelExportState: the captures kept, by window
    frames,    \* frames the compositor has not answered, by window
    late,      \* how many more it owes to captures that are gone, or that asked again
    struck     \* captures whose wait such a late answer has ended (for the property)

vars == <<hyVars, ov, capture, frames, late, struck>>

NoWindow == "none"
NoCapture == [kept |-> FALSE, inFlight |-> FALSE]
Page(g) == (g * PerMonitor + 1)..((g + 1) * PerMonitor)
GroupOf(w) == (w - 1) \div PerMonitor

Init ==
    /\ HyInit
    /\ ov = [mode |-> "closed", group |-> 0, selected |-> 1, drag |-> NoWindow,
             from |-> Nowhere, tiles |-> [x \in Windows |-> Nowhere]]
    /\ capture = [x \in Windows |-> NoCapture]
    /\ frames = [x \in Windows |-> "none"]
    /\ late = [x \in Windows |-> 0] /\ struck = {}

Shown == ov.mode \in {"open", "closing"}      \* base.open, until the fade is over
Tiled == {x \in Windows : ov.tiles[x] # Nowhere}
OverviewOnly == UNCHANGED <<capture, frames, late, struck>>

-----------------------------------------------------------------------------
(* Opening first reads everything again; the page is that of the active    *)
(* workspace of the overview's monitor.  A toggle while it fades out only  *)
(* fades out again.                                                         *)
Opens(o) == LET w == IF hypr.by[Bound] = Nowhere THEN 1 ELSE hypr.by[Bound]
            IN  [o EXCEPT !.mode = "open", !.selected = w, !.group = GroupOf(w)]
Closes(o) == [o EXCEPT !.mode = "closing", !.drag = NoWindow]

Toggle ==
    /\ PollFree /\ hypr.backend /\ hyWork.orders < MaxOrders
    /\ hyWork' = [hyWork EXCEPT !.orders = @ + 1]
    /\ IF Shown THEN ov' = Closes(ov) /\ UNCHANGED hypr
       ELSE ov' = [ov EXCEPT !.mode = "opening"] /\ hypr' = ReadWorkspaces(hypr)
    /\ UNCHANGED <<hyprland, events, script, row>> /\ OverviewOnly

(* The last answer of the refresh lets the toggle go on.                   *)
HyprlandStep ==
    /\ HyNext
    /\ ov' = ov /\ OverviewOnly
ToggleEnds ==
    /\ ov.mode = "opening" /\ PollFree
    /\ ov' = Opens(ov)
    /\ UNCHANGED hyVars /\ OverviewOnly

FadedOut ==
    /\ ov.mode = "closing"
    /\ ov' = [ov EXCEPT !.mode = "closed"]
    /\ UNCHANGED hyVars /\ OverviewOnly

-----------------------------------------------------------------------------
(* Commands.  Positions of the page are not global: they are resolved      *)
(* against the monitor that has the focus when they are sent.              *)
Acts == Order /\ Shown /\ OverviewOnly

ClickCell(w) ==
    /\ Acts /\ w \in Page(ov.group)
    /\ ov' = [ov EXCEPT !.selected = w]
    /\ script' = FocusScript(hypr, w, FALSE)

PressTile(x) ==
    /\ Acts /\ x \in Tiled
    /\ ov' = [ov EXCEPT !.drag = x, !.from = ov.tiles[x]]
    /\ UNCHANGED script

(* Dropped on a cell: on its own one, that workspace is focused.           *)
Release(w) ==
    /\ PollFree /\ ov.drag # NoWindow
    /\ w \in Page(ov.group) \union {Nowhere}
    /\ ov' = [ov EXCEPT !.drag = NoWindow]
    /\ script' = IF w = Nowhere THEN <<>>
                 ELSE IF w = ov.from THEN FocusScript(hypr, w, FALSE)
                 ELSE MoveScript(hypr, ov.drag, w)
    /\ UNCHANGED <<hyprland, events, hypr, row, hyWork>> /\ OverviewOnly

Key(w) ==
    /\ Acts /\ w \in Page(ov.group)
    /\ ov' = [ov EXCEPT !.selected = w, !.group = GroupOf(w)]
    /\ \/ script' = FocusScript(hypr, w, FALSE)
       \/ script' = SwapScript(hypr, w)
       \/ script' = MoveInScript(hypr, w)

CloseKey ==
    /\ Acts /\ UNCHANGED ov
    /\ \/ script' = CloseScript(hypr, In(hypr.clients.at, ov.selected))
       \/ script' = CloseScript(hypr, {x \in Windows : hypr.clients.at[x] \in
              {w \in Workspaces : MonitorOf(w) = Bound}})
       \/ script' = CloseScript(hypr, {x \in Windows : hypr.clients.at[x] # Nowhere})
                    \o FocusScript(hypr, 1, FALSE)

-----------------------------------------------------------------------------
(* A frame lays out the tiles of the page, asks for a new capture of each  *)
(* one that is neither in flight nor too fresh, and forgets the captures   *)
(* of windows that are gone: their frames are not destroyed and still      *)
(* answer, late.                                                           *)
Tiles(o) == [x \in Windows |-> LET w == hypr.clients.at[x]
                               IN  IF w \in Page(o.group) THEN w ELSE Nowhere]
Pruned(c) == [x \in Windows |-> IF hypr.clients.at[x] = Nowhere THEN NoCapture ELSE c[x]]
Asked(c, S) ==
    [x \in Windows |-> IF x \in S THEN [c[x] EXCEPT !.kept = TRUE, !.inFlight = TRUE]
                       ELSE c[x]]

Paint(S) ==
    /\ PollFree /\ Shown /\ hypr.backend
    /\ ov' = [ov EXCEPT !.tiles = Tiles(ov)]
    /\ S \subseteq {x \in Windows : Tiles(ov)[x] # Nowhere /\ ~capture[x].inFlight}
    /\ capture' = Pruned(Asked(capture, S))
    /\ LET left == {x \in Windows : frames[x] # "none" /\ (x \in S \/ ~capture'[x].kept)}
       IN  /\ frames' = [x \in Windows |-> IF x \in S THEN "asked"
                                           ELSE IF x \in left THEN "none" ELSE frames[x]]
           /\ late' = [x \in Windows |-> IF x \in left THEN late[x] + 1 ELSE late[x]]
           /\ struck' = struck \ left
    /\ UNCHANGED hyVars

(* handle_buffer_done, handle_ready and handle_failed; which texture a     *)
(* tile is drawn with is left out.                                         *)
Ends(x) ==
    /\ frames' = [frames EXCEPT ![x] = "none"]
    /\ capture' = [capture EXCEPT ![x].inFlight = FALSE]
    /\ struck' = struck \ {x}

BufferDone(x) ==
    /\ PollFree /\ frames[x] = "asked"
    /\ \/ frames' = [frames EXCEPT ![x] = "copying"] /\ UNCHANGED <<capture, struck>>
       \/ Ends(x)                                        \* no format, or no buffer
    /\ UNCHANGED <<hyVars, ov, late>>
Ready(x) ==
    /\ PollFree /\ frames[x] = "copying" /\ hyprland.at[x] # Nowhere
    /\ Ends(x)
    /\ UNCHANGED <<hyVars, ov, late>>
FailedStaysInFlight(x) ==         \* mutant: a frame that failed is waited for
    /\ PollFree /\ frames[x] # "none"
    /\ frames' = [frames EXCEPT ![x] = "none"]
    /\ UNCHANGED <<hyVars, ov, capture, late, struck>>
Failed(x) ==
    /\ PollFree /\ frames[x] # "none"
    /\ Ends(x)
    /\ UNCHANGED <<hyVars, ov, late>>

(* A late answer writes through a capture that was erased, where anything  *)
(* may be: nothing that is read again, or a capture that is kept.          *)
LateAnswer(x) ==
    /\ PollFree /\ late[x] > 0
    /\ late' = [late EXCEPT ![x] = @ - 1]
    /\ \/ UNCHANGED <<capture, struck>>
       \/ \E y \in Windows :
             /\ capture[y].kept
             /\ capture' = [capture EXCEPT ![y].inFlight = FALSE]
             /\ struck' = IF frames[y] = "none" THEN struck ELSE struck \union {y}
    /\ UNCHANGED <<hyVars, ov, frames>>

Next ==
    \/ HyprlandStep \/ Toggle \/ ToggleEnds \/ FadedOut \/ CloseKey
    \/ \E w \in Workspaces : ClickCell(w) \/ Key(w)
    \/ \E w \in Workspaces \union {Nowhere} : Release(w)
    \/ \E x \in Windows : PressTile(x) \/ BufferDone(x) \/ Ready(x) \/ Failed(x) \/ LateAnswer(x)
    \/ \E S \in SUBSET Windows : Paint(S)

Spec == Init /\ [][Next]_vars

-----------------------------------------------------------------------------
TypeOK ==
    /\ HyTypeOK
    /\ ov.mode \in {"closed", "opening", "open", "closing"}
    /\ ov.drag \in Windows \union {NoWindow} /\ ov.selected \in Workspaces
    /\ frames \in [Windows -> {"none", "asked", "copying"}]
    /\ late \in [Windows -> Nat] /\ struck \subseteq Windows

(* A tile is captured again only while the compositor owes no frame of it, *)
(* and a capture that waits is one the compositor still answers: none      *)
(* stays in flight for ever, whatever fails on the way.  Only the late     *)
(* answer to a capture that was erased ends another's wait before its time.*)
CapturesAnswered ==
    \A x \in Windows : capture[x].inFlight = (frames[x] # "none" /\ x \notin struck)
=============================================================================
