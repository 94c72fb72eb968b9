------------------------------ MODULE MCPanels ------------------------------
(* The dashboard as an overlay panel, and one at a time the other surfaces   *)
(* that open over the desktop: `part' says which of them runs.  The shell    *)
(* keeps them in step only through events, which each module has as its      *)
(* input; the variables of the others are `Off'.  While another part runs    *)
(* the dashboard rests as it was created, without a frame callback: none of  *)
(* its fair actions is enabled.                                              *)
EXTENDS OverlayPanel, Naturals, Sequences, FiniteSets

CONSTANTS
    BarPanels, Overlays, MaxActs,                       \* of Bar
    NamedMonitors, FieldTexts,                          \* of Settings
    ButtonCount,                                        \* of Logout
    Found, MaxOpens, MaxStrokes,                        \* of LauncherList
    NMonitors, Windows, PerMonitor,                     \* of Overview
    MaxMoves, MaxOrders, Bound

ASSUME PanelsAssumption ==
    /\ BarPanels \intersect Overlays = {} /\ "none" \notin BarPanels \union Overlays
    /\ MaxActs \in Nat
    /\ "default" \notin NamedMonitors /\ FieldTexts # {} /\ "unparsed" \notin FieldTexts
    /\ ButtonCount \in Nat \ {0}
    /\ Found \subseteq Seq({"app", "dir", "file"})
    /\ MaxOpens \in Nat /\ MaxStrokes \in Nat
    /\ NMonitors \in Nat \ {0} /\ PerMonitor \in Nat \ {0} /\ Bound \in 1..NMonitors
    /\ IsFiniteSet(Windows)

VARIABLES
    part,
    panels, byWidget, pointer, edge, shape, drawDue, zone, windows, barWork,
    cf, st, edit, plugged, asked, moved,
    ring, tween, glow, seat, ran, torn,
    list, painted, stray, misclick, strokes,
    hyprland, events, hypr, script, row, hyWork, ov, capture, frames, late, struck

\* Searches that find nothing, an application and a folder, or a file.
SomeFound == {<<>>, <<"app", "dir">>, <<"file">>}

Edges == INSTANCE Bar
Tabs == INSTANCE Settings
Ring == INSTANCE Logout
Rows == INSTANCE LauncherList
Tiles == INSTANCE Overview

edgeVars == <<panels, byWidget, pointer, edge, shape, drawDue, zone, windows, barWork>>
tabVars == <<cf, st, edit, plugged, asked, moved>>
ringVars == <<ring, tween, glow, seat, ran, torn>>
rowVars == <<list, painted, stray, misclick, strokes>>
tileVars == <<hyprland, events, hypr, script, row, hyWork, ov, capture, frames, late, struck>>
guests == <<edgeVars, tabVars, ringVars, rowVars, tileVars>>

Off == "off"

MCInit ==
    /\ part \in {"dashboard", "bar", "settings", "logout", "launcher", "overview"}
    /\ Init /\ (part = "dashboard" \/ bound = CHOOSE o \in Outputs : TRUE)
    /\ IF part = "bar" THEN Edges!Init
       ELSE /\ panels = Off /\ byWidget = Off /\ pointer = Off /\ edge = Off
            /\ shape = Off /\ drawDue = Off /\ zone = Off /\ windows = Off /\ barWork = Off
    /\ IF part = "settings" THEN Tabs!Init
       ELSE /\ cf = Off /\ st = Off /\ edit = Off
            /\ plugged = Off /\ asked = Off /\ moved = Off
    /\ IF part = "logout" THEN Ring!Init
       ELSE /\ ring = Off /\ tween = Off /\ glow = Off
            /\ seat = Off /\ ran = Off /\ torn = Off
    /\ IF part = "launcher" THEN Rows!Init
       ELSE /\ list = Off /\ painted = Off /\ stray = Off
            /\ misclick = Off /\ strokes = Off
    /\ IF part = "overview" THEN Tiles!Init
       ELSE /\ hyprland = Off /\ events = Off /\ hypr = Off /\ script = Off /\ row = Off
            /\ hyWork = Off /\ ov = Off /\ capture = Off /\ frames = Off
            /\ late = Off /\ struck = Off

Dashboard == part = "dashboard" /\ Next /\ UNCHANGED guests

Guest ==
    /\ part # "dashboard" /\ UNCHANGED vars
    /\ IF part = "bar" THEN Edges!Next ELSE UNCHANGED edgeVars
    /\ IF part = "settings" THEN Tabs!Next ELSE UNCHANGED tabVars
    /\ IF part = "logout" THEN Ring!Next ELSE UNCHANGED ringVars
    /\ IF part = "launcher" THEN Rows!Next ELSE UNCHANGED rowVars
    /\ IF part = "overview" THEN Tiles!Next ELSE UNCHANGED tileVars

MCNext == (Dashboard \/ Guest) /\ UNCHANGED part

MCSpec == MCInit /\ [][MCNext]_<<part, vars, guests>> /\ Fairness

(* The dashboard and the surfaces that are drawn by frames of their own      *)
(* keep the types of their variables; OverviewSettles has the overview's.    *)
TypesOK ==
    /\ TypeOK
    /\ part = "bar" => Edges!TypeOK
    /\ part = "settings" => Tabs!TypeOK
    /\ part = "logout" => Ring!TypeOK
    /\ part = "launcher" => Rows!TypeOK

(* No surface waits for a frame that nobody asked for: the bar and the dock  *)
(* end in the geometry their settings and the pointer call for               *)
(* (Edges!EdgesSettle), the list of the launcher shows its rows with a       *)
(* selection among them (Rows!ListSettles), a settings tab is painted as it  *)
(* is (Tabs!TabSettles), the phases of the logout ring follow each other     *)
(* with the buttons lit as they say (Ring!ChainGoesOn, Ring!HighlightsTrue), *)
(* and a capture of the overview waits exactly while the compositor owes its *)
(* frame, but for the late answers to captures that were erased              *)
(* (Tiles!CapturesAnswered).                                                 *)
SurfacesSettle ==
    /\ part = "bar" => Edges!EdgesSettle
    /\ part = "launcher" => Rows!ListSettles
    /\ part = "settings" => Tabs!TabSettles
    /\ part = "logout" => Ring!ChainGoesOn /\ Ring!HighlightsTrue
    /\ part = "overview" => Tiles!CapturesAnswered

(* An input has its effect once and on what it was meant for: one panel of   *)
(* the bar is open at a time (Edges!OnePanel), one opening of the ring runs  *)
(* one command (Ring!OneCommand), what was typed in a field lands in the     *)
(* scope it was typed for (Tabs!EditsLand), and the rows of the launcher     *)
(* belong to this opening (Rows!RowsAreLive).                                *)
InputsLand ==
    /\ part = "bar" => Edges!OnePanel
    /\ part = "logout" => Ring!OneCommand
    /\ part = "settings" => Tabs!EditsLand
    /\ part = "launcher" => Rows!RowsAreLive

(* The copy of Hyprland's workspaces that the shell draws agrees with        *)
(* Hyprland once all events are read (Tiles!RowSettles), whatever each       *)
(* request and line has left in it (Tiles!TypeOK), and a script of commands  *)
(* leaves no window behind on the workspace it goes through                  *)
(* (Tiles!NoneStranded).                                                     *)
OverviewSettles ==
    part = "overview" => Tiles!TypeOK /\ Tiles!RowSettles /\ Tiles!NoneStranded

(* Whatever changes in the open dashboard is painted, and a closing one      *)
(* gives the keyboard back, as long as its output stays.                     *)
ChangesConclude == ChangeIsShown /\ CloseReleasesKeyboard
=============================================================================
