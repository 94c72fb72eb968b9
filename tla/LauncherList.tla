---------------------------- MODULE LauncherList ----------------------------
(* The list of the launcher (modules/launcher.cpp, launcher/submenu.cpp,   *)
(* LauncherModule): the results of a search or the screen of a submenu,    *)
(* the selection in it, and what the last frame drew.  Three things move   *)
(* under the list: results arrive whenever a search ends, the submenu too; *)
(* the closing fade goes on taking keys and clicks; and every opening      *)
(* scans the applications again, into which the results point.  How the    *)
(* search runs is in LauncherSearch; hovering and scrolling are left out.  *)
EXTENDS Naturals, Sequences, FrameClock

CONSTANTS
    Found,        \* what searches may find: sequences of "app", "dir", "file"
    MaxOpens,     \* bound: openings
    MaxStrokes    \* bound: keys and clicks

VARIABLES
    list,         \* LauncherState
    painted,      \* the rows and the selection of the last frame
    stray,        \* typed into the closing fade, or torn down while open
    misclick,     \* a click on a row that was drawn but is no longer there
    strokes       \* keys and clicks left

vars == <<list, painted, stray, misclick, strokes>>

Nothing == ""
Texts == {Nothing, "query", "url"}          \* nothing, a file search, another mode
Screens == {"Search", "Browse", "DirActions", "FileActions"}
Kinds == {"app", "dir", "file", "options", "prev", "containing", "run"}

(* The items of a submenu; two entries stand for the listing of a folder.  *)
Items(screen) ==
    CASE screen = "Browse" -> <<"options", "prev", "dir", "file">>
      [] screen = "DirActions" -> <<"run", "run", "run">>
      [] screen = "FileActions" -> <<"run", "containing">>

Rows(l) == IF l.screen = "Search" THEN [i \in DOMAIN l.results |-> l.results[i].kind]
           ELSE Items(l.screen)
View(l) == IF l.open THEN <<Rows(l), l.sel>> ELSE <<<<>>, 0>>
First(rows) == IF rows = <<>> THEN 0 ELSE 1

Init ==
    /\ list = [surface |-> TRUE, open |-> FALSE, fade |-> "none", clock |-> IdleClock,
               screen |-> "Search", browse |-> FALSE, sel |-> 0, apps |-> 0,
               results |-> <<>>, text |-> Nothing, dirty |-> FALSE,
               searching |-> FALSE, destroying |-> FALSE]
    /\ painted = <<<<>>, 0>>
    /\ stray = FALSE /\ misclick = FALSE
    /\ strokes = MaxStrokes
-----------------------------------------------------------------------------
(* The submenu                                                             *)
SubmenuClose(l) == [l EXCEPT !.screen = "Search", !.browse = FALSE]
OpenDirectory(l) == [l EXCEPT !.screen = "Browse"]
OpenDirectoryActions(l) == [l EXCEPT !.screen = "DirActions"]
OpenFileActions(l) ==
    [l EXCEPT !.screen = "FileActions", !.browse = l.screen = "Browse"]

GoBack(l) ==
    IF l.screen = "DirActions" \/ (l.screen = "FileActions" /\ l.browse)
    THEN OpenDirectory(l) ELSE SubmenuClose(l)
-----------------------------------------------------------------------------
(* Frames                                                                  *)
FadeKeepsResults(l) ==      \* mutant: the list is left for the next opening
    [SubmenuClose(l) EXCEPT !.open = FALSE, !.text = Nothing, !.fade = "none",
                            !.destroying = TRUE]
FadeDone(l) ==
    [SubmenuClose(l) EXCEPT !.open = FALSE, !.text = Nothing, !.fade = "none",
                            !.results = <<>>, !.sel = 0, !.destroying = TRUE]

Ticked(l) ==
    {l} \union CASE l.fade = "none" -> {}
                 [] l.fade = "opening" -> {[l EXCEPT !.fade = "none"]}
                 [] l.fade = "closing" -> {FadeDone(l)}

Paint(l) ==
    {[x EXCEPT !.clock = IF x.open /\ x.fade # "none" THEN Deferred(Committed(@))
                         ELSE Committed(@)] : x \in Ticked(l)}

RequestFrame(l) ==
    IF ~l.surface \/ ~l.open THEN {l}
    ELSE IF l.clock.callback # "none" THEN {[l EXCEPT !.clock = Deferred(@)]}
    ELSE IF l.clock.mapped THEN {[l EXCEPT !.clock = Scheduled(@)]}
    ELSE Paint([l EXCEPT !.clock = FirstDraw(@)])

Painting(l) == l.clock.callback = "none" /\ ~l.clock.mapped /\ l.surface /\ l.open

(* A handler made l of the list, and asks for a frame; the first frame of  *)
(* a surface is drawn at once.                                             *)
Drawn(l) ==
    \E q \in RequestFrame(l) :
        list' = q /\ painted' = IF Painting(l) THEN View(q) ELSE painted

Frame ==
    /\ list.clock.callback = "committed"
    /\ IF list.clock.redraw
       THEN \E q \in Paint([list EXCEPT !.clock = DoneForDraw(@)]) :
                list' = q /\ painted' = View(q)
       ELSE list' = [list EXCEPT !.clock = DoneIdle(@)] /\ UNCHANGED painted
    /\ UNCHANGED <<stray, misclick, strokes>>
-----------------------------------------------------------------------------
(* Opening and closing                                                     *)
Close(l) ==
    [l EXCEPT !.dirty = FALSE, !.searching = FALSE, !.fade = "closing"]

Toggle(l) ==
    IF ~l.surface THEN l
    ELSE IF l.open THEN Close(l)
    ELSE [l EXCEPT !.apps = @ + 1, !.open = TRUE, !.fade = "opening",
                   !.clock = Committed(@)]

(* The launcher verb; a closed launcher without a surface, or on another   *)
(* output, is moved first.                                                 *)
Command ==
    /\ list.open \/ list.apps < MaxOpens
    /\ \E moved \in IF list.open THEN {FALSE} ELSE {~list.surface, TRUE} :
          LET l == IF moved THEN [list EXCEPT !.surface = TRUE, !.clock = IdleClock] ELSE list
          IN  Drawn(Toggle(l))
    /\ UNCHANGED <<stray, misclick, strokes>>

DestroySurface ==
    /\ list.destroying
    /\ list' = IF list.open THEN [list EXCEPT !.destroying = FALSE]
               ELSE [list EXCEPT !.destroying = FALSE, !.surface = FALSE,
                                 !.clock = IdleClock]
    /\ UNCHANGED <<painted, stray, misclick, strokes>>

(* Results, texts and a submenu stay as they were.                         *)
OutputRemoved ==
    /\ list.surface
    /\ list' = [list EXCEPT !.surface = FALSE, !.open = FALSE, !.fade = "none",
                            !.clock = IdleClock]
    /\ stray' = (stray \/ list.open)
    /\ UNCHANGED <<painted, misclick, strokes>>
-----------------------------------------------------------------------------
(* The search                                                              *)
Tick ==
    /\ list.dirty
    /\ Drawn(IF list.text = "query"
             THEN [list EXCEPT !.dirty = FALSE, !.searching = TRUE]
             ELSE [list EXCEPT !.dirty = FALSE, !.results = <<>>, !.sel = 0])
    /\ UNCHANGED <<stray, misclick, strokes>>

PollKeepsSelection(l, found) ==     \* mutant: the selection is left alone
    [l EXCEPT !.searching = FALSE,
              !.results = [i \in DOMAIN found |-> [kind |-> found[i], apps |-> l.apps]]]
SearchPoll(l, found) ==
    [l EXCEPT !.searching = FALSE, !.sel = First(found),
              !.results = [i \in DOMAIN found |-> [kind |-> found[i], apps |-> l.apps]]]

SearchDone ==
    /\ list.searching
    /\ \E found \in Found : Drawn(SearchPoll(list, found))
    /\ UNCHANGED <<stray, misclick, strokes>>
-----------------------------------------------------------------------------
(* Keys and clicks                                                         *)
LaunchSelected(l) ==
    IF l.screen = "Search" /\ l.text = "url" THEN Toggle(l)
    ELSE IF l.sel \notin DOMAIN Rows(l) THEN l
    ELSE LET kind == Rows(l)[l.sel]
         IN  CASE kind \in {"app", "run"} -> Toggle(l)
               [] kind \in {"dir", "prev"} -> [OpenDirectory(l) EXCEPT !.sel = 1]
               [] kind = "file" -> [OpenFileActions(l) EXCEPT !.sel = 1]
               [] kind \in {"options", "containing"} ->
                    [OpenDirectoryActions(l) EXCEPT !.sel = 1]

QueryChanged(l, t) == [l EXCEPT !.text = t, !.dirty = TRUE]

(* Up and Down, clamped to the rows                                        *)
Moved(l, delta) ==
    LET count == Len(Rows(l))
        to == l.sel + delta
    IN  [l EXCEPT !.sel = IF count = 0 THEN 0
                          ELSE IF to < 2 THEN 1 ELSE IF to - 1 > count THEN count ELSE to - 1]

BackKeepsSelection(l) == GoBack(l)          \* mutant: the submenu's selection stays
Back(l) == LET g == GoBack(l) IN [g EXCEPT !.sel = First(Rows(g))]

Stroke == strokes > 0 /\ strokes' = strokes - 1

(* Keys reach the launcher until the closing fade is over.                 *)
Type(t) ==
    /\ Stroke /\ list.open /\ t # list.text
    /\ Drawn(QueryChanged(SubmenuClose(list), t))
    /\ stray' = (stray \/ list.fade = "closing")
    /\ UNCHANGED misclick

(* An edit of the input method does not leave the submenu.                 *)
ImeEdit(t) ==
    /\ Stroke /\ list.open /\ t # list.text
    /\ Drawn(QueryChanged(list, t))
    /\ stray' = (stray \/ list.fade = "closing")
    /\ UNCHANGED misclick

Key ==
    /\ Stroke /\ list.open
    /\ \/ \E delta \in {0, 2} : Drawn(Moved(list, delta))
       \/ Drawn(LaunchSelected(list))
       \/ Drawn(IF list.screen = "Search" THEN Toggle(list) ELSE Back(list))
    /\ UNCHANGED <<stray, misclick>>

(* A click finds its row among the rows of the last frame.                 *)
Click ==
    /\ Stroke /\ list.open
    /\ \/ \E row \in DOMAIN painted[1] :
            /\ Drawn(LaunchSelected([list EXCEPT !.sel = row]))
            /\ misclick' = (misclick \/ row \notin DOMAIN Rows(list))
       \/ Drawn(Toggle(list)) /\ UNCHANGED misclick
    /\ UNCHANGED stray

Next ==
    \/ Frame \/ Command \/ DestroySurface \/ OutputRemoved \/ Tick \/ SearchDone
    \/ \E t \in Texts : Type(t) \/ ImeEdit(t)
    \/ Key \/ Click

Spec == Init /\ [][Next]_vars
-----------------------------------------------------------------------------
TypeOK ==
    /\ list \in [surface : BOOLEAN, open : BOOLEAN, fade : {"none", "opening", "closing"},
                 clock : Clock, screen : Screens, browse : BOOLEAN, sel : Nat,
                 apps : 0..MaxOpens, results : Seq([kind : Kinds, apps : 0..MaxOpens]),
                 text : Texts, dirty : BOOLEAN, searching : BOOLEAN, destroying : BOOLEAN]
    /\ ClockOK(list.clock)
    /\ {stray, misclick} \subseteq BOOLEAN /\ strokes \in 0..MaxStrokes

(* The rows of an open launcher point at the applications of its own       *)
(* opening: nothing found by a search outlives the closing fade, unless    *)
(* something was typed into that fade or the output was removed.           *)
RowsAreLive ==
    list.open /\ ~stray =>
        \A i \in DOMAIN list.results : list.results[i].apps = list.apps

(* At rest the last frame shows the list as it is, with the selection on   *)
(* one of its rows, whatever arrived while a submenu was open.  Closing    *)
(* cancels the search that would have put it right; a click on a row that  *)
(* had gone may leave the selection beside them too.                       *)
ListSettles ==
    list.open =>
        /\ list.clock.redraw \/ painted = View(list)
        /\ list.clock.redraw => list.clock.callback = "committed"
        /\ \/ list.dirty \/ list.searching \/ list.fade = "closing" \/ misclick \/ stray
           \/ list.sel <= Len(Rows(list))
=============================================================================
