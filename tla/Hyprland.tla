------------------------------ MODULE Hyprland ------------------------------
(* The compositor's workspaces as the shell knows them.  The service keeps *)
(* a copy, read with three blocking requests and patched by the events of  *)
(* a second socket; the bar draws a row of workspaces and a dock from it,  *)
(* and sends the commands of a pill or a shortcut one by one.  Hyprland    *)
(* runs on: it changes between two requests of one refresh, and its events *)
(* may describe a state older than the copy they patch.                    *)
EXTENDS Integers, Sequences, FiniteSets, SequencesExt

CONSTANTS
    NMonitors,    \* outputs, numbered from 1
    Windows,      \* windows that may exist
    PerMonitor,   \* kWorkspacesPerMonitor
    MaxMoves,     \* changes Hyprland makes by itself
    MaxOrders     \* commands of the user that go through the shell

VARIABLES
    hyprland,   \* the compositor
    events,     \* lines on the event socket
    hypr,       \* HyprlandState
    script,     \* requests the poll thread still has to send; it waits for each
    row,        \* the workspace row and dock as last drawn
    hyWork      \* moves and orders so far

hyVars == <<hyprland, events, hypr, script, row, hyWork>>

Monitors == 1..NMonitors
Workspaces == 1..(NMonitors * PerMonitor)
Nowhere == 0                      \* no window, no active workspace
Temp == -1                        \* special:__tmp_swp
MonitorOf(w) == ((w - 1) \div PerMonitor) + 1
In(at, w) == {x \in Windows : at[x] = w}
Occupied(at) == {w \in Workspaces : In(at, w) # {}}
First == [m \in Monitors |-> (m - 1) * PerMonitor + 1]
Unknown == [m \in Monitors |-> Nowhere]

(* What j/clients tells: where every window is, and their order.           *)
ClientsOf(c) == [at |-> c.at, order |-> c.order]

(* The row of every monitor, and the dock of its active workspace.         *)
Drawn(h) ==
    [active |-> IF h.backend THEN h.by ELSE Unknown,
     occupied |-> IF h.backend THEN h.occupied ELSE {},
     dock |-> [m \in Monitors |-> IF h.by[m] = Nowhere THEN {}
                                  ELSE In(h.clients.at, h.by[m])],
     order |-> h.clients.order, redraw |-> FALSE]

HyInit ==
    /\ hyprland = [focused |-> 1, active |-> First, at |-> [x \in Windows |-> 1],
                   order |-> FALSE, read |-> TRUE]
    /\ events = <<>>
    /\ hypr = [by |-> First, occupied |-> Occupied(hyprland.at), focused |-> 1, backend |-> TRUE,
               clients |-> ClientsOf(hyprland), step |-> 0]
    /\ script = <<>>
    /\ row = Drawn(hypr)
    /\ hyWork = [moves |-> 0, orders |-> 0]

-----------------------------------------------------------------------------
(* Hyprland.  A command for a workspace of another monitor focuses that    *)
(* monitor first; every line is written when the change is made.           *)
FocusOn(c, w) ==
    [c EXCEPT !.focused = MonitorOf(w), !.active[MonitorOf(w)] = w, !.read = FALSE]
FocusLines(c, w) ==
    LET m == MonitorOf(w)
    IN  (IF m = c.focused THEN <<>> ELSE <<[ev |-> "mon", m |-> m, w |-> c.active[m]]>>)
        \o (IF c.active[m] = w THEN <<>> ELSE <<[ev |-> "ws", m |-> m, w |-> w]>>)
Moved(c, x, w) ==
    IF c.at[x] = Nowhere THEN c ELSE [c EXCEPT !.at[x] = w, !.read = FALSE]
WindowLine == <<[ev |-> "window", m |-> 0, w |-> 0]>>

(* hypr_dispatch: the effect of one command.                               *)
Effect(c, cmd) ==
    CASE cmd.do = "focus" -> FocusOn(c, cmd.w)
      [] cmd.do = "move" -> Moved(c, cmd.x, cmd.w)
      [] cmd.do = "follow" ->
           IF c.at[cmd.x] = Nowhere THEN c ELSE FocusOn(Moved(c, cmd.x, cmd.w), cmd.w)
      [] cmd.do = "close" -> Moved(c, cmd.x, Nowhere)
Lines(c, cmd) ==
    (IF cmd.do = "focus" \/ c.at[cmd.x] = Nowhere THEN <<>> ELSE WindowLine)
    \o (IF cmd.do = "focus" \/ (cmd.do = "follow" /\ c.at[cmd.x] # Nowhere)
        THEN FocusLines(c, cmd.w) ELSE <<>>)

Runs(cmd) ==
    /\ hyprland' = Effect(hyprland, cmd)
    /\ events' = IF hypr.backend THEN events \o Lines(hyprland, cmd) ELSE events

HyprlandRuns ==
    /\ script # <<>>
    /\ Runs(Head(script))
    /\ script' = Tail(script)
    /\ UNCHANGED <<hypr, row, hyWork>>

Moving == hyWork.moves < MaxMoves /\ hyWork' = [hyWork EXCEPT !.moves = @ + 1]

HyprlandMoves ==
    /\ Moving
    /\ \/ \E w \in Workspaces : Runs([do |-> "focus", w |-> w])
       \/ \E x \in Windows, w \in Workspaces : Runs([do |-> "move", x |-> x, w |-> w])
       \/ \E x \in Windows : Runs([do |-> "close", x |-> x])
    /\ UNCHANGED <<hypr, script, row>>

WindowOpens(x) ==
    /\ Moving /\ hyprland.at[x] = Nowhere
    /\ hyprland' = [hyprland EXCEPT !.at[x] = hyprland.active[hyprland.focused],
                                    !.read = FALSE]
    /\ events' = IF hypr.backend THEN events \o WindowLine ELSE events
    /\ UNCHANGED <<hypr, script, row>>

(* Reordering the tiles of a workspace writes no line.                     *)
Reorders ==
    /\ Moving
    /\ hyprland' = [hyprland EXCEPT !.order = ~@, !.read = FALSE]
    /\ UNCHANGED <<events, hypr, script, row>>

-----------------------------------------------------------------------------
(* The service.                                                            *)
PollFree == script = <<>> /\ hypr.step = 0    \* the poll thread is not waiting
Redrawn == row' = [row EXCEPT !.redraw = TRUE]

Patched(h, line) ==
    CASE line.ev = "mon" -> [h EXCEPT !.focused = line.m, !.by[line.m] = line.w]
      [] line.ev = "ws" -> [h EXCEPT !.by[h.focused] = line.w]
      [] OTHER -> h
(* One structural line makes the whole batch structural.                   *)
BatchResultLast(batch) ==          \* mutant: the last line decides
    IF Last(batch).ev = "window" THEN "structural" ELSE "active"
BatchResult(batch) ==
    IF \E i \in DOMAIN batch : batch[i].ev = "window" THEN "structural" ELSE "active"

(* hypr_refresh: three requests, each answered with what holds then.       *)
ReadWorkspaces(h) ==
    [h EXCEPT !.by = Unknown, !.occupied = Occupied(hyprland.at), !.step = 1]
ReadMonitors ==
    /\ hypr.step = 1
    /\ hypr' = [hypr EXCEPT !.by = hyprland.active, !.focused = hyprland.focused,
                            !.step = 2]
    /\ UNCHANGED <<hyprland, events, script, row, hyWork>>
ReadClients ==
    /\ hypr.step = 2
    /\ hypr' = [hypr EXCEPT !.clients = ClientsOf(hyprland), !.step = 0]
    /\ Redrawn
    /\ UNCHANGED <<hyprland, events, script, hyWork>>

(* The copy after each line of a batch.                                    *)
AfterLines(batch) ==
    LET after[n \in 0..Len(batch)] ==
          IF n = 0 THEN hypr ELSE Patched(after[n - 1], batch[n])
    IN  after

(* The lines that arrived, in order; a line not complete yet stays behind. *)
PollEvents(n) ==
    /\ PollFree /\ hypr.backend /\ n \in 1..Len(events)
    /\ LET batch == SubSeq(events, 1, n)
           h == AfterLines(batch)[n]
       IN  IF BatchResult(batch) = "structural"
           THEN hypr' = ReadWorkspaces(h) /\ UNCHANGED row
           ELSE hypr' = h /\ Redrawn
    /\ events' = SubSeq(events, n + 1, Len(events))
    /\ UNCHANGED <<hyprland, script, hyWork>>

(* The socket closes: what came with the end of the stream is not read.    *)
Disconnected ==
    /\ PollFree /\ hypr.backend /\ Moving
    /\ hypr' = [hypr EXCEPT !.backend = FALSE]
    /\ events' = <<>>
    /\ UNCHANGED <<hyprland, script, row>>

(* Once a second: the clients are read again.                              *)
TimerTick ==
    /\ PollFree /\ hypr.backend /\ ~hyprland.read
    /\ hyprland' = [hyprland EXCEPT !.read = TRUE]
    /\ IF ClientsOf(hyprland) = hypr.clients THEN UNCHANGED <<hypr, row>>
       ELSE hypr' = [hypr EXCEPT !.clients = ClientsOf(hyprland)] /\ Redrawn
    /\ UNCHANGED <<events, script, hyWork>>

DrawRow ==
    /\ PollFree /\ row.redraw
    /\ row' = Drawn(hypr)
    /\ UNCHANGED <<hyprland, events, hypr, script, hyWork>>

-----------------------------------------------------------------------------
(* The commands.  They go by the copy: the active workspace of the monitor *)
(* that has the focus, and the windows it lists.                           *)
ActiveId(h) == h.by[h.focused]
Resolve(h, id, global) ==
    IF global \/ id \notin 1..PerMonitor THEN id
    ELSE LET active == IF ActiveId(h) > 0 THEN ActiveId(h) ELSE 1
         IN  ((active - 1) \div PerMonitor) * PerMonitor + id

FocusScript(h, id, global) == <<[do |-> "focus", w |-> Resolve(h, id, global)]>>
MoveScript(h, x, id) == <<[do |-> "move", x |-> x, w |-> Resolve(h, id, FALSE)]>>
MoveAll(S, w) == [i \in 1..Cardinality(S) |->
                    [do |-> "move", x |-> SetToSeq(S)[i], w |-> w]]
CloseScript(h, S) == [i \in 1..Cardinality(S) |-> [do |-> "close", x |-> SetToSeq(S)[i]]]

MoveInScript(h, id) ==
    LET src == ActiveId(h)
        dst == Resolve(h, id, FALSE)
    IN  IF src = Nowhere \/ src = dst THEN <<>>
        ELSE MoveAll(In(h.clients.at, src), dst) \o FocusScript(h, id, FALSE)

SwapScriptStops(h, id) ==            \* mutant: the parked windows are left there
    LET src == ActiveId(h)
        dst == Resolve(h, id, FALSE)
        here == In(h.clients.at, src)
        there == In(h.clients.at, dst)
    IN  IF src = Nowhere \/ src = dst \/ here \union there = {} THEN <<>>
        ELSE MoveAll(here, Temp) \o MoveAll(there, src) \o FocusScript(h, id, FALSE)
SwapScript(h, id) ==
    LET src == ActiveId(h)
        dst == Resolve(h, id, FALSE)
        here == In(h.clients.at, src)
        there == In(h.clients.at, dst)
    IN  IF src = Nowhere \/ src = dst \/ here \union there = {} THEN <<>>
        ELSE MoveAll(here, Temp) \o MoveAll(there, src) \o MoveAll(here, dst)
             \o FocusScript(h, id, FALSE)

Order ==
    /\ PollFree /\ hypr.backend /\ hyWork.orders < MaxOrders
    /\ hyWork' = [hyWork EXCEPT !.orders = @ + 1]
    /\ UNCHANGED <<hyprland, events, hypr, row>>

(* A pill of the row carries the compositor's own workspace number.        *)
ClickPill(m, w) ==
    /\ Order /\ w \in {row.active[m]} \union row.occupied /\ w \in Workspaces
    /\ script' = FocusScript(hypr, w, TRUE)

HyNext ==
    \/ HyprlandRuns \/ HyprlandMoves \/ Reorders
    \/ \E x \in Windows : WindowOpens(x)
    \/ ReadMonitors \/ ReadClients \/ Disconnected \/ TimerTick \/ DrawRow
    \/ \E n \in 1..Len(events) : PollEvents(n)
    \/ \E m \in Monitors, w \in Workspaces : ClickPill(m, w)

HySpec == HyInit /\ [][HyNext]_hyVars

-----------------------------------------------------------------------------
HyTypeOK ==
    /\ hyprland.at \in [Windows -> Workspaces \union {Nowhere, Temp}]
    /\ \A m \in Monitors : MonitorOf(hyprland.active[m]) = m
    /\ hypr.by \in [Monitors -> Workspaces \union {Nowhere}]
    /\ hypr.clients.at \in [Windows -> Workspaces \union {Nowhere, Temp}]
    /\ hypr.step \in 0..2 /\ hypr.focused \in Monitors
    /\ script # <<>> => hypr.step = 0

(* With every line read, the timer gone by and the frame drawn, the rows   *)
(* and docks show the workspaces and windows Hyprland has, although lines  *)
(* were applied over newer answers and requests answered at different times. *)
RowSettles ==
    PollFree /\ hypr.backend /\ events = <<>> /\ hyprland.read /\ ~row.redraw =>
        /\ row.active = hyprland.active
        /\ row.occupied = Occupied(hyprland.at)
        /\ row.order = hyprland.order
        /\ \A m \in Monitors : row.dock[m] = In(hyprland.at, hyprland.active[m])

(* A swap parks windows in a hidden workspace; whatever Hyprland does in   *)
(* between, none is left there when its last command has run.              *)
NoneStranded == script = <<>> => \A x \in Windows : hyprland.at[x] # Temp
=============================================================================
